---------------------------- MODULE Spec2Model ----------------------------
(***************************************************************************)
(* VisionAI backend: the predict-and-log pipeline (image normalizer,       *)
(* inference wrapper, prediction orchestrator), its two transports (HTTP   *)
(* POST /predict and the WebSocket command loop), the health endpoint and  *)
(* the auth helper (register, login, token verification).                  *)
(*                                                                         *)
(* Python values are modelled as follows.  None is NULL (0) where the      *)
(* value is an Optional[int] (ids start at 1) and the record None where    *)
(* the value is an object (an ORM row, a token payload).  An exception is  *)
(* a record [type, msg].  Probabilities are integers in 0..ProbScale       *)
(* standing for k/ProbScale; pixel values are integers in 0..255 standing  *)
(* for k/255 once normalised.  Time is in whole seconds, as in the "exp"   *)
(* claim of a token.                                                       *)
(***************************************************************************)
EXTENDS Integers, Sequences, FiniteSets, TLC

VARIABLES
    users,            \* table users: set of User rows
    model_version,    \* table model_version: set of ModelVersion rows
    predictions_log,  \* table predictions_log: sequence of rows, in insert order
    now,              \* the clock (datetime.utcnow(), whole seconds)
    tokens,           \* tokens handed out by POST /auth/login, with their issue time
    connected_clients,\* main.connected_clients: the WebSocket connections registered
    ws_open,          \* the WebSocket connections whose handler is in its message loop
    ml_model,         \* MLService._model: "loaded" or "none"
    ws_io,            \* per WebSocket connection: frames in flight, handler position, replies
    db_schema,        \* the tables, columns and foreign keys the database has
    applied,          \* the revisions applied to the database, oldest first
    ml_service,       \* the MLService singleton: the instance and the loads it made
    register_reqs,    \* per server process: the POST /auth/register it is handling
    db_sessions,      \* the owners of the database sessions that are open
    last              \* the last operation: its request and what the caller got back

vars == <<users, model_version, predictions_log, now, tokens,
          connected_clients, ws_open, ml_model, ws_io, db_schema, applied,
          ml_service, register_reqs, db_sessions, last>>

----------------------------------------------------------------------------
(* Bounds of the model *)

MaxLog == 2             \* rows the log may hold
MaxElapsedMs == 1       \* largest measured total_time_ms
MaxTokens == 2          \* tokens logins may hand out
MaxTicks == 2           \* steps of the clock, each two thirds of a token lifetime
MaxUsers == 3           \* rows the users table may hold
MaxFrames == 3          \* text frames the WebSocket clients may send in all
ProbScale == 10         \* a probability is k/ProbScale

NULL == 0
None == [none |-> TRUE]

Usernames == {"alice", "bob"}
Passwords == {"secret1", "secret2"}
ClientIps == {"10.0.0.1"}
WebSockets == {"ws1", "ws2"}
DbErrors == {"connection refused", "statement timeout"}

----------------------------------------------------------------------------
(* Exceptions *)

Exc(type, msg) == [type |-> type, msg |-> msg]

\* isinstance(e, ValueError): pydantic's ValidationError and json's
\* JSONDecodeError derive from ValueError.
IsValueError(e) == e.type \in {"ValueError", "ValidationError", "JSONDecodeError"}

Return(v) == [raised |-> FALSE, value |-> v]
Raise(e) == [raised |-> TRUE, exc |-> e]

----------------------------------------------------------------------------
(* Persisted reference data *)

\* emotion_class as seeded by the initial migration (ids by autoincrement).
emotion_class ==
    { [emotion_id |-> 1, emotion_name |-> "angry"],
      [emotion_id |-> 2, emotion_name |-> "disgust"],
      [emotion_id |-> 3, emotion_name |-> "fear"],
      [emotion_id |-> 4, emotion_name |-> "happy"],
      [emotion_id |-> 5, emotion_name |-> "neutral"],
      [emotion_id |-> 6, emotion_name |-> "sad"],
      [emotion_id |-> 7, emotion_name |-> "surprise"] }

\* The INSERT INTO emotion_class of the initial migration: the names in the
\* order of its VALUES list, and the rows the new table's sequence gives them.
SeedEmotionNames ==
    <<"angry", "disgust", "fear", "happy", "neutral", "sad", "surprise">>
SeededEmotionClass ==
    { [emotion_id |-> i, emotion_name |-> SeedEmotionNames[i]] :
        i \in DOMAIN SeedEmotionNames }

\* model_version as seeded by the initial migration.
ModelVersionSeed ==
    { [model_id |-> 1, model_version_tag |-> "v1.0.0",
       model_filename |-> "modelo_emociones.h5", model_status |-> "01"] }

\* The states the model_version table is started in: the seed; a table whose
\* only row was retired (no active row); a table with a newer active row.
ModelVersionTables ==
    { ModelVersionSeed,
      { [model_id |-> 1, model_version_tag |-> "v1.0.0",
         model_filename |-> "modelo_emociones.h5", model_status |-> "00"] },
      { [model_id |-> 1, model_version_tag |-> "v1.0.0",
         model_filename |-> "modelo_emociones.h5", model_status |-> "00"],
        [model_id |-> 2, model_version_tag |-> "v2.0.0",
         model_filename |-> "modelo_emociones_v2.h5", model_status |-> "01"] },
      {} }

----------------------------------------------------------------------------
(* Image normalizer: utils/image_processing.py *)

\* The byte strings a caller may send.  A decodable image is described by
\* what PIL reads from it: format, colour mode, size, the range of its pixel
\* values, and the face it shows (which decides what the classifier sees).
ImageInputs ==
    { [kind |-> "empty"],
      [kind |-> "garbage"],
      [kind |-> "image", format |-> "JPEG", mode |-> "RGB", width |-> 640,
       height |-> 480, lo |-> 0, hi |-> 255, face |-> "smiling"],
      [kind |-> "image", format |-> "PNG", mode |-> "L", width |-> 48,
       height |-> 48, lo |-> 12, hi |-> 200, face |-> "crying"] }

ByteLen(image_bytes) == IF image_bytes.kind = "empty" THEN 0 ELSE 1

\* preprocess_image without its except clause turning a decode failure into
\* ValueError: whatever has bytes comes back as a tensor.
PreprocessImageNoDecodeError(image_bytes) ==
    IF image_bytes.kind = "empty"
    THEN Raise(Exc("ValueError", "No se pudo procesar la imagen proporcionada."))
    ELSE Return([shape |-> <<1, 96, 96, 3>>, min |-> 0, max |-> 255, den |-> 255,
                 face |-> "smiling"])

\* PIL.Image.MAX_IMAGE_PIXELS: Image.open warns above it and raises
\* DecompressionBombError above twice it.
MAX_IMAGE_PIXELS == 89478485

\* Image.open(io.BytesIO(image_bytes)): the image PIL reads, in the mode and
\* size of the file, or the error it raises for bytes that are no image and
\* for an image over the pixel limit.
ImageOpen(image_bytes) ==
    IF image_bytes.kind # "image"
    THEN Raise(Exc("UnidentifiedImageError", "cannot identify image file"))
    ELSE IF image_bytes.width * image_bytes.height > 2 * MAX_IMAGE_PIXELS
    THEN Raise(Exc("DecompressionBombError", "Image size exceeds limit"))
    ELSE Return([mode |-> image_bytes.mode,
                 size |-> <<image_bytes.width, image_bytes.height>>,
                 lo |-> image_bytes.lo, hi |-> image_bytes.hi,
                 face |-> image_bytes.face])

\* The bands of a PIL mode.
Bands(mode) ==
    CASE mode \in {"1", "L", "P"} -> 1
      [] mode = "LA" -> 2
      [] mode = "RGB" -> 3
      [] mode \in {"RGBA", "CMYK"} -> 4

\* image.convert("RGB"): three 8-bit bands.  A bilevel pixel becomes 0 or
\* 255, ink becomes its complement, the other modes keep their range.
ImageConvertRGB(image) ==
    [image EXCEPT
        !.mode = "RGB",
        !.lo = CASE image.mode = "1" -> 255 * image.lo
                 [] image.mode = "CMYK" -> 255 - image.hi
                 [] OTHER -> image.lo,
        !.hi = CASE image.mode = "1" -> 255 * image.hi
                 [] image.mode = "CMYK" -> 255 - image.lo
                 [] OTHER -> image.hi]

\* image.thumbnail(size): the image shrunk to fit in `size`, its aspect
\* ratio kept.
ImageThumbnail(image, size) ==
    LET w == image.size[1]
        h == image.size[2]
    IN  IF w <= size[1] /\ h <= size[2] THEN image
        ELSE IF w * size[2] >= h * size[1]
        THEN [image EXCEPT !.size = <<size[1], IF (h * size[1]) \div w = 0 THEN 1
                                               ELSE (h * size[1]) \div w>>]
        ELSE [image EXCEPT !.size = <<IF (w * size[2]) \div h = 0 THEN 1
                                      ELSE (w * size[2]) \div h, size[2]>>]

\* image.resize(size): the image resampled to exactly `size`; the samples
\* stay within the range of the pixels they are taken from.
ImageResize(image, size) == [image EXCEPT !.size = size]

\* np.array(image): rows, columns, bands.
NpArray(image) ==
    [shape |-> <<image.size[2], image.size[1], Bands(image.mode)>>,
     min |-> image.lo, max |-> image.hi, den |-> 1, face |-> image.face]

\* array / 255.0
Divide(array, d) == [array EXCEPT !.den = @ * d]

\* np.expand_dims(array, axis=0)
ExpandDims(array) == [array EXCEPT !.shape = <<1>> \o @]

\* preprocess_image(image_bytes): Image.open(...).convert("RGB")
\* .resize((96, 96)); np.array(...) / 255.0; np.expand_dims(..., axis=0);
\* any exception on the way becomes ValueError.
preprocess_image(image_bytes) ==
    LET image == ImageOpen(image_bytes)
    IN  IF image.raised
        THEN Raise(Exc("ValueError", "No se pudo procesar la imagen proporcionada."))
        ELSE LET processed_image == ImageResize(ImageConvertRGB(image.value), <<96, 96>>)
                 img_array == Divide(NpArray(processed_image), 255)
             IN  Return(ExpandDims(img_array))

----------------------------------------------------------------------------
(* Inference wrapper: services/ml_service.py *)

EMOTION_CLASSES ==
    <<"angry", "disgust", "fear", "happy", "neutral", "sad", "surprise">>

\* self._model.predict(image_array)[0]: the loaded network's output for a
\* tensor, one probability per class.  The network is fixed; what it
\* answers depends on the face only.
KerasPredict(tensor) ==
    IF tensor.face = "smiling"
    THEN <<0, 0, 0, ProbScale - 1, 1, 0, 0>>
    ELSE <<1, 0, 1, 0, 0, ProbScale - 2, 0>>

\* np.argmax: the first index holding the largest value (1-based here).
ArgMax(v) ==
    CHOOSE i \in DOMAIN v :
        /\ \A j \in DOMAIN v : v[j] <= v[i]
        /\ \A j \in DOMAIN v : j < i => v[j] < v[i]

\* MLService.predict(image_array), with self._model = model.
MLPredict(model, image_array) ==
    IF model = "none"
    THEN Raise(Exc("Exception", "Modelo no inicializado"))
    ELSE IF image_array.shape # <<1, 96, 96, 3>>
    THEN Raise(Exc("ValueError", "Shape de imagen incorrecto"))
    ELSE LET predictions == KerasPredict(image_array)
             predicted_class_idx == ArgMax(predictions)
         IN  Return([emotion_name |-> EMOTION_CLASSES[predicted_class_idx],
                     confidence |-> predictions[predicted_class_idx],
                     all_probs |-> predictions])

----------------------------------------------------------------------------
(* Prediction orchestrator: services/prediction_service.py *)

\* The mapping filled with the classifier's class indices (from 0) instead
\* of the ids of the emotion_class rows.
EmotionNameToClassIndex ==
    [n \in {"angry", "disgust", "fear", "happy", "neutral", "sad", "surprise"} |->
        (CHOOSE i \in DOMAIN EMOTION_CLASSES : EMOTION_CLASSES[i] = n) - 1]

EMOTION_NAME_TO_ID ==
    [n \in {"angry", "disgust", "fear", "happy", "neutral", "sad", "surprise"} |->
        CASE n = "angry" -> 1
          [] n = "disgust" -> 2
          [] n = "fear" -> 3
          [] n = "happy" -> 4
          [] n = "neutral" -> 5
          [] n = "sad" -> 6
          [] n = "surprise" -> 7]

\* What the environment decides during one call: the measured elapsed time
\* and whether the database fails the lookup query or the commit.
Envs ==
    [ms : 0..MaxElapsedMs, query_fails : BOOLEAN, commit_fails : BOOLEAN]

\* _get_active_model without its filter on model_status.
GetActiveModelAnyStatus(table, env) ==
    IF env.query_fails \/ table = {} THEN None
    ELSE CHOOSE m \in table : \A o \in table : m.model_id <= o.model_id

\* PredictionService._get_active_model(db): the row with status '01', or
\* None when there is none or the query raises.
GetActiveModel(table, env) ==
    IF env.query_fails THEN None
    ELSE LET active == {m \in table : m.model_status = "01"}
         IN  IF active = {} THEN None
             ELSE CHOOSE m \in active : \A o \in active : m.model_id <= o.model_id

\* The foreign keys of predictions_log, checked by the database at commit.
ForeignKeysHold(table, row) ==
    /\ \E e \in emotion_class : e.emotion_id = row.emotion_id
    /\ \E m \in table : m.model_id = row.model_id

\* _save_prediction on a table declared without its ForeignKey columns.
SavePredictionNoForeignKeys(log, table, emotion_id, confidence, model_id, processing_time_ms, source_ip, env) ==
    IF env.commit_fails
    THEN Raise(Exc("OperationalError", "commit failed"))
    ELSE Return(Append(log, [predic_id |-> Len(log) + 1, emotion_id |-> emotion_id,
                             confidence |-> confidence, model_id |-> model_id,
                             processing_time_ms |-> processing_time_ms,
                             source_ip |-> source_ip, user |-> NULL,
                             timestamp |-> now]))

\* _save_prediction writing through db.merge with the id of the newest row:
\* an update of that row in place of an insert.
SavePredictionOverwriting(log, table, emotion_id, confidence, model_id, processing_time_ms, source_ip, env) ==
    LET prediction_log ==
            [predic_id |-> IF log = <<>> THEN 1 ELSE Len(log),
             emotion_id |-> emotion_id,
             confidence |-> confidence, model_id |-> model_id,
             processing_time_ms |-> processing_time_ms,
             source_ip |-> source_ip, user |-> NULL, timestamp |-> now]
    IN  IF env.commit_fails
        THEN Raise(Exc("OperationalError", "commit failed"))
        ELSE IF ~ForeignKeysHold(table, prediction_log)
        THEN Raise(Exc("IntegrityError", "foreign key violation"))
        ELSE IF log = <<>> THEN Return(<<prediction_log>>)
        ELSE Return([log EXCEPT ![Len(log)] = prediction_log])

\* _save_prediction adding the row to the session twice.
SavePredictionTwice(log, table, emotion_id, confidence, model_id, processing_time_ms, source_ip, env) ==
    LET prediction_log ==
            [predic_id |-> Len(log) + 1, emotion_id |-> emotion_id,
             confidence |-> confidence, model_id |-> model_id,
             processing_time_ms |-> processing_time_ms,
             source_ip |-> source_ip, user |-> NULL, timestamp |-> now]
    IN  IF env.commit_fails
        THEN Raise(Exc("OperationalError", "commit failed"))
        ELSE Return(Append(Append(log, prediction_log),
                           [prediction_log EXCEPT !.predic_id = Len(log) + 2]))

\* PredictionService._save_prediction: db.add, db.commit, db.refresh; on an
\* error db.rollback and re-raise.  The value returned is the table after.
SavePrediction(log, table, emotion_id, confidence, model_id, processing_time_ms, source_ip, env) ==
    LET prediction_log ==
            [predic_id |-> Len(log) + 1, emotion_id |-> emotion_id,
             confidence |-> confidence, model_id |-> model_id,
             processing_time_ms |-> processing_time_ms,
             source_ip |-> source_ip, user |-> NULL, timestamp |-> now]
    IN  IF env.commit_fails
        THEN Raise(Exc("OperationalError", "commit failed"))
        ELSE IF ~ForeignKeysHold(table, prediction_log)
        THEN Raise(Exc("IntegrityError", "foreign key violation"))
        ELSE Return(Append(log, prediction_log))

\* PredictionResponse(...): pydantic validates confidence in [0, 1] and
\* processing_time_ms > 0, and raises ValidationError otherwise.
PredictionResponse(emotion_name, confidence, model_version_tag, processing_time_ms) ==
    IF confidence < 0 \/ confidence > ProbScale \/ ~(processing_time_ms > 0)
    THEN Raise(Exc("ValidationError", "validation error for PredictionResponse"))
    ELSE Return([emotion_name |-> emotion_name, confidence |-> confidence,
                 model_version_tag |-> model_version_tag,
                 processing_time_ms |-> processing_time_ms])

\* The outcome of a call: what it returned or raised, the table after it,
\* and whether the log write was tried and raised.
Outcome(res, log, save_failed) ==
    [raised |-> res.raised,
     exc |-> IF res.raised THEN res.exc ELSE None,
     value |-> IF res.raised THEN None ELSE res.value,
     log |-> log, save_failed |-> save_failed]

\* The body of PredictionService.predict_emotion from step 3 on, with the
\* classifier's answer in hand.
PredictEmotionTail(log, table, pred, source_ip, env) ==
    LET total_time_ms == env.ms
        model_row == GetActiveModel(table, env)
        model_version_tag ==
            IF model_row = None THEN "v1.0.0" ELSE model_row.model_version_tag
        model_id == IF model_row = None THEN 1 ELSE model_row.model_id
        emotion_id ==
            IF pred.emotion_name \in DOMAIN EMOTION_NAME_TO_ID
            THEN EMOTION_NAME_TO_ID[pred.emotion_name] ELSE NULL
    IN  IF emotion_id = NULL
        THEN Outcome(Raise(Exc("ValueError", "Emocion no reconocida")), log, FALSE)
        ELSE LET saved == SavePrediction(log, table, emotion_id, pred.confidence,
                                         model_id, total_time_ms, source_ip, env)
                 after == IF saved.raised THEN log ELSE saved.value
                 response == PredictionResponse(pred.emotion_name, pred.confidence,
                                                model_version_tag, total_time_ms)
             IN  Outcome(response, after, saved.raised)

\* The except clauses of predict_emotion: a ValueError is re-raised as it
\* is; any other exception is replaced by a plain Exception quoting it.
PredictEmotionExcept(out) ==
    IF out.raised /\ ~IsValueError(out.exc)
    THEN [out EXCEPT !.exc = Exc("Exception",
                                 <<"Error al procesar la prediccion", out.exc.msg>>)]
    ELSE out

\* PredictionService.predict_emotion(image_bytes, db, source_ip).
PredictEmotion(log, table, model, image_bytes, source_ip, env) ==
    LET image_array == preprocess_image(image_bytes)
        pred == MLPredict(model, image_array.value)
    IN  PredictEmotionExcept(
            IF image_array.raised THEN Outcome(image_array, log, FALSE)
            ELSE IF pred.raised THEN Outcome(pred, log, FALSE)
            ELSE PredictEmotionTail(log, table, pred.value, source_ip, env))

\* The parameters predict_emotion declares (self apart).
PredictEmotionParams == {"image_bytes", "db", "source_ip"}

\* A call of predict_emotion with the keyword arguments `kwargs`: Python
\* binds the arguments before the body runs, and raises TypeError for a
\* keyword the function does not declare.
CallPredictEmotion(kwargs, log, table, model, image_bytes, source_ip, env) ==
    IF ~(kwargs \subseteq PredictEmotionParams)
    THEN Outcome(Raise(Exc("TypeError",
                           "predict_emotion() got an unexpected keyword argument")),
                 log, FALSE)
    ELSE PredictEmotion(log, table, model, image_bytes, source_ip, env)

----------------------------------------------------------------------------
(* Auth helper: services/auth_service.py *)

SECRET_KEY == "visionai_secret_key_2025_change_this_in_production"
ACCESS_TOKEN_EXPIRE_MINUTES == 1440

\* timedelta(minutes=m), in seconds.
Minutes(m) == m * 60

\* pwd_context.hash / pwd_context.verify (bcrypt): the hash is opaque, and
\* verification succeeds for the password it was made from and no other.
get_password_hash(password) == [scheme |-> "bcrypt", digest_of |-> password]
verify_password(plain_password, hashed_password) ==
    hashed_password.scheme = "bcrypt" /\ hashed_password.digest_of = plain_password

\* HS256: the signature is a function of the key and the signed payload.
Hmac(key, payload) == <<key, payload>>

\* jwt.encode(claims, key, algorithm="HS256")
JwtEncode(claims, key) == [payload |-> claims, signature |-> Hmac(key, claims)]

\* A string that is not a JWT at all.
GarbageToken == [garbage |-> TRUE]

\* jwt.decode(token, key, algorithms=["HS256"]) at time t: JWTError for a
\* string that is no JWT or whose signature does not verify, and
\* ExpiredSignatureError (a JWTError) when exp < t.
JwtDecode(token, key, t) ==
    IF token = GarbageToken
    THEN Raise(Exc("JWTError", "Not enough segments"))
    ELSE IF token.signature # Hmac(key, token.payload)
    THEN Raise(Exc("JWTError", "Signature verification failed."))
    ELSE IF token.payload.exp < t
    THEN Raise(Exc("JWTError", "Signature has expired."))
    ELSE Return(token.payload)

\* AuthService.create_access_token(data, expires_delta) at time t;
\* expires_delta = NULL stands for None (the default lifetime).
create_access_token(data, expires_delta, t) ==
    LET expire == IF expires_delta # NULL
                  THEN t + expires_delta
                  ELSE t + Minutes(ACCESS_TOKEN_EXPIRE_MINUTES)
    IN  JwtEncode([sub |-> data.sub, exp |-> expire], SECRET_KEY)

\* verify_token decoding with options={"verify_exp": False}.
VerifyTokenIgnoringExpiry(token, t) ==
    LET decoded == JwtDecode(token, SECRET_KEY, token.payload.exp)
    IN  IF token = GarbageToken \/ decoded.raised THEN None ELSE decoded.value

\* AuthService.verify_token(token) at time t: the payload, or None.
verify_token(token, t) ==
    LET decoded == JwtDecode(token, SECRET_KEY, t)
    IN  IF decoded.raised THEN None ELSE decoded.value

\* AuthService.get_user_by_username(db, username): the row, or None.
get_user_by_username(table, username) ==
    IF \E u \in table : u.username = username
    THEN CHOOSE u \in table : u.username = username
    ELSE None

\* AuthService.create_user(db, username, password): the table after the
\* insert (user_id by autoincrement, is_active = True).
create_user(table, username, password) ==
    table \cup { [user_id |-> Cardinality(table) + 1, username |-> username,
                  hashed_password |-> get_password_hash(password),
                  is_active |-> TRUE] }

\* authenticate_user without the password check.
AuthenticateUserNoPassword(table, username, password) ==
    LET user == get_user_by_username(table, username)
    IN  IF user = None THEN None
        ELSE IF ~user.is_active THEN None
        ELSE user

\* AuthService.authenticate_user(db, username, password): the row, or None.
authenticate_user(table, username, password) ==
    LET user == get_user_by_username(table, username)
    IN  IF user = None THEN None
        ELSE IF ~verify_password(password, user.hashed_password) THEN None
        ELSE IF ~user.is_active THEN None
        ELSE user

----------------------------------------------------------------------------
(* The database schema: models/database_models.py *)

\* What a schema holds: tables, their columns, foreign keys.
TableFact(t) ==
    [kind |-> "table", table |-> t, name |-> "", ref |-> "", nullable |-> FALSE]
Column(t, c, nullable) ==
    [kind |-> "column", table |-> t, name |-> c, ref |-> "", nullable |-> nullable]
ForeignKey(t, name, ref) ==
    [kind |-> "fk", table |-> t, name |-> name, ref |-> ref, nullable |-> FALSE]

\* The columns the ORM classes declare, with their nullable flag.
OrmColumns ==
    { Column("emotion_class", "emotion_id", FALSE),
      Column("emotion_class", "emotion_name", FALSE),
      Column("emotion_class", "emotion_desc", TRUE),
      Column("model_version", "model_id", FALSE),
      Column("model_version", "model_version_tag", FALSE),
      Column("model_version", "model_filename", FALSE),
      Column("model_version", "model_status", FALSE),
      Column("model_version", "creation_date", TRUE),
      Column("predictions_log", "predic_id", FALSE),
      Column("predictions_log", "emotion_id", FALSE),
      Column("predictions_log", "confidence", FALSE),
      Column("predictions_log", "model_id", FALSE),
      Column("predictions_log", "processing_time_ms", TRUE),
      Column("predictions_log", "source_ip", TRUE),
      Column("predictions_log", "user", TRUE),
      Column("predictions_log", "timestamp", TRUE),
      Column("users", "user_id", FALSE),
      Column("users", "username", FALSE),
      Column("users", "hashed_password", FALSE),
      Column("users", "is_active", FALSE),
      Column("users", "created_at", TRUE),
      Column("users", "updated_at", TRUE) }

\* The schema the ORM classes describe.
OrmSchema ==
    {TableFact(c.table) : c \in OrmColumns}
    \cup OrmColumns
    \cup { ForeignKey("predictions_log", "predictions_log_emotion_id_fkey", "emotion_class"),
           ForeignKey("predictions_log", "predictions_log_model_id_fkey", "model_version") }

\* A connection's traffic: the frames the client sent that the handler has
\* not read yet, where the handler is ("receive": awaiting receive_text,
\* "handle": inside the dispatch for `frame`), the frames read so far and
\* the replies sent, each with the number of the frame it answers.
IdleIo ==
    [inbox |-> <<>>, pc |-> "receive", frame |-> None, read |-> <<>>, sent |-> <<>>]

----------------------------------------------------------------------------
(* The state after start-up *)

\* A user an administrator deactivated in the database (is_active = False);
\* no endpoint clears the flag, the login path reads it.
DeactivatedUser ==
    [user_id |-> 1, username |-> "carol",
     hashed_password |-> get_password_hash("secret1"), is_active |-> FALSE]

LoginNames == Usernames \cup {"carol"}

Started == [op |-> "start"]

\* The server processes that share the database.
Workers == {"w1", "w2"}

\* A process that is handling no registration.
Idle == [pc |-> "idle"]

\* ml_service = MLService() at import: the instance exists, one call of
\* _load_model was made and it loaded the model.
Imported == [instance |-> TRUE, load_calls |-> 1, loads |-> 1, reloads |-> 0]

InitCommon ==
    /\ predictions_log = <<>>
    /\ now = 0
    /\ tokens = {}
    /\ connected_clients = {}
    /\ ws_open = {}
    /\ ml_model = "loaded"      \* ml_service = MLService() at import
    /\ ws_io = [websocket \in WebSockets |-> IdleIo]
    /\ db_schema = OrmSchema
    /\ applied = <<>>
    /\ ml_service = Imported
    /\ register_reqs = [w \in Workers |-> Idle]
    /\ db_sessions = {}
    /\ last = Started

----------------------------------------------------------------------------
(* The orchestrator called on its own *)

\* prediction_service.predict_emotion(image_bytes=..., db=..., source_ip=...)
ServicePredict(image_bytes, source_ip, env) ==
    /\ Len(predictions_log) < MaxLog
    /\ LET out == CallPredictEmotion(PredictEmotionParams, predictions_log,
                                     model_version, ml_model, image_bytes,
                                     source_ip, env)
       IN  /\ predictions_log' = out.log
           /\ last' = [op |-> "predict_emotion", image |-> image_bytes,
                       source_ip |-> source_ip, env |-> env,
                       log_before |-> predictions_log, out |-> out]
    /\ UNCHANGED <<users, model_version, now, tokens, connected_clients,
                   ws_open, ml_model, ws_io, db_schema, applied,
                   ml_service, register_reqs, db_sessions>>

InitService ==
    /\ InitCommon
    /\ users = {}
    /\ model_version \in ModelVersionTables

NextService ==
    \E image_bytes \in ImageInputs, source_ip \in ClientIps, env \in Envs :
        ServicePredict(image_bytes, source_ip, env)

SpecService == InitService /\ [][NextService]_vars

----------------------------------------------------------------------------
(* Auth endpoints: api/routes/auth.py *)

TickSeconds == (2 * Minutes(ACCESS_TOKEN_EXPIRE_MINUTES)) \div 3

\* Time passes.
Tick ==
    /\ now < MaxTicks * TickSeconds
    /\ now' = now + TickSeconds
    /\ last' = [op |-> "tick"]
    /\ UNCHANGED <<users, model_version, predictions_log, tokens,
                   connected_clients, ws_open, ml_model, ws_io, db_schema, applied,
                   ml_service, register_reqs, db_sessions>>

\* register_user without the look-up of the username.
RegisterUserNoCheck(username, password) ==
    /\ Cardinality(users) < MaxUsers
    /\ users' = create_user(users, username, password)
    /\ last' = [op |-> "register", username |-> username,
                status |-> 201, detail |-> ""]
    /\ UNCHANGED <<model_version, predictions_log, now, tokens,
                   connected_clients, ws_open, ml_model, ws_io, db_schema, applied,
                   ml_service, register_reqs, db_sessions>>

\* POST /auth/register
register_user(username, password) ==
    LET existing_user == get_user_by_username(users, username)
    IN  /\ existing_user # None \/ Cardinality(users) < MaxUsers
        /\ IF existing_user # None
           THEN /\ users' = users
                /\ last' = [op |-> "register", username |-> username,
                            status |-> 400,
                            detail |-> "El username ya esta registrado"]
           ELSE /\ users' = create_user(users, username, password)
                /\ last' = [op |-> "register", username |-> username,
                            status |-> 201, detail |-> ""]
        /\ UNCHANGED <<model_version, predictions_log, now, tokens,
                       connected_clients, ws_open, ml_model, ws_io, db_schema, applied,
                   ml_service, register_reqs, db_sessions>>

\* db.commit() of create_user under the unique index on users.username: the
\* table after the insert, or IntegrityError when the name is taken by then.
CommitUser(table, username, password) ==
    IF \E u \in table : u.username = username
    THEN Raise(Exc("IntegrityError", "duplicate key value violates unique constraint"))
    ELSE Return(create_user(table, username, password))

\* What a step of a registration leaves alone.
RegisterFrame ==
    UNCHANGED <<model_version, predictions_log, now, tokens, connected_clients,
                ws_open, ml_model, ws_io, db_schema, applied, ml_service>>

\* POST /auth/register arriving at server process w: get_db opens the
\* session and the handler looks the name up; a name that is taken is
\* answered 400 at once, otherwise the handler goes on to create_user.
register_lookup(w, username, password) ==
    LET existing_user == get_user_by_username(users, username)
    IN  /\ register_reqs[w] = Idle
        /\ existing_user # None \/ Cardinality(users) < MaxUsers
        /\ IF existing_user # None
           THEN /\ register_reqs' = register_reqs
                /\ db_sessions' = db_sessions \ {w}
                /\ last' = [op |-> "register", worker |-> w, username |-> username,
                            status |-> 400,
                            detail |-> "El username ya esta registrado"]
           ELSE /\ register_reqs' =
                       [register_reqs EXCEPT ![w] = [pc |-> "create",
                                                     username |-> username,
                                                     password |-> password]]
                /\ db_sessions' = db_sessions \cup {w}
                /\ last' = [op |-> "register_lookup", worker |-> w,
                            username |-> username, status |-> NULL, detail |-> ""]
        /\ users' = users
        /\ RegisterFrame

\* The rest of the handler in process w: create_user, whose commit the
\* database may refuse; the except clause answers 500; get_db closes the
\* session.
register_create(w) ==
    LET req == register_reqs[w]
        out == CommitUser(users, req.username, req.password)
    IN  /\ req # Idle
        /\ users' = IF out.raised THEN users ELSE out.value
        /\ register_reqs' = [register_reqs EXCEPT ![w] = Idle]
        /\ db_sessions' = db_sessions \ {w}
        /\ last' = [op |-> "register", worker |-> w, username |-> req.username,
                    status |-> IF out.raised THEN 500 ELSE 201,
                    detail |-> IF out.raised THEN "Error al crear el usuario" ELSE ""]
        /\ RegisterFrame

\* The token POST /auth/login answers with for `user` at time t.
LoginToken(user, t) ==
    create_access_token([sub |-> user.username],
                        Minutes(ACCESS_TOKEN_EXPIRE_MINUTES), t)

\* POST /auth/login
login(username, password) ==
    LET user == authenticate_user(users, username, password)
    IN  /\ IF user = None
           THEN /\ tokens' = tokens
                /\ last' = [op |-> "login", username |-> username,
                            password |-> password, status |-> 401,
                            detail |-> "Username o contrasena incorrectos",
                            access_token |-> None]
           ELSE LET access_token == LoginToken(user, now)
                    issued == [token |-> access_token, username |-> username,
                               iat |-> now]
                IN  /\ issued \in tokens \/ Cardinality(tokens) < MaxTokens
                    /\ tokens' = tokens \cup {issued}
                    /\ last' = [op |-> "login", username |-> username,
                                password |-> password, status |-> 200,
                                detail |-> "", access_token |-> access_token]
        /\ UNCHANGED <<users, model_version, predictions_log, now,
                       connected_clients, ws_open, ml_model, ws_io, db_schema, applied,
                   ml_service, register_reqs, db_sessions>>

\* The tokens a client may send: the ones logins handed out, a string that
\* is no JWT, a token signed with another key, and a handed-out token whose
\* payload was rewritten to name another user (signature kept).
PresentedTokens ==
    {t.token : t \in tokens}
    \cup {GarbageToken}
    \cup {JwtEncode([sub |-> "alice", exp |-> now + TickSeconds], "another key")}
    \cup {[payload |-> [sub |-> "bob", exp |-> t.token.payload.exp],
           signature |-> t.token.signature] : t \in tokens}

\* GET /auth/verify?token=...
verify_token_endpoint(token) ==
    LET payload == verify_token(token, now)
        user == IF payload = None THEN None
                ELSE get_user_by_username(users, payload.sub)
    IN  /\ last' = IF payload = None
                   THEN [op |-> "verify", token |-> token, status |-> 401,
                         detail |-> "Token invalido o expirado", username |-> ""]
                   ELSE IF user = None
                   THEN [op |-> "verify", token |-> token, status |-> 401,
                         detail |-> "Usuario no encontrado", username |-> ""]
                   ELSE [op |-> "verify", token |-> token, status |-> 200,
                         detail |-> "", username |-> user.username]
        /\ UNCHANGED <<users, model_version, predictions_log, now, tokens,
                       connected_clients, ws_open, ml_model, ws_io, db_schema, applied,
                   ml_service, register_reqs, db_sessions>>


----------------------------------------------------------------------------
(* Optional authentication: api/dependencies.py *)

\* str.lower() on the strings the model uses.
Lower(str) ==
    CASE str = "Bearer" -> "bearer"
      [] str = "Basic" -> "basic"
      [] str = "PREDICT" -> "predict"
      [] str = "Health" -> "health"
      [] OTHER -> str

\* The tokens a client of the transports may send at time t: the token a
\* login of alice hands out now, one handed out two ticks ago (expired),
\* a string that is no JWT, a token signed with another key, and a token
\* signed with SECRET_KEY that names a user the table does not hold.
ValidToken(t) == create_access_token([sub |-> "alice"], NULL, t)
ExpiredToken(t) == create_access_token([sub |-> "alice"], NULL, t - 2 * TickSeconds)
ForgedToken(t) == JwtEncode([sub |-> "alice", exp |-> t + TickSeconds], "another key")
UnknownUserToken(t) == create_access_token([sub |-> "bob"], NULL, t)

TransportTokens(t) ==
    {ValidToken(t), ExpiredToken(t), GarbageToken, ForgedToken(t), UnknownUserToken(t)}

\* The Authorization header after str.split(); <<>> is no header (None).
AuthorizationHeaders(t) ==
    {<<>>, <<"Bearer">>}
    \cup {<<"Bearer", token>> : token \in TransportTokens(t)}
    \cup {<<"Basic", ValidToken(t)>>}

\* get_current_user_optional(authorization, db) at time t: the user_id, or
\* NULL (None).
get_current_user_optional(authorization, table, t) ==
    IF authorization = <<>> THEN NULL
    ELSE IF Len(authorization) # 2 \/ Lower(authorization[1]) # "bearer" THEN NULL
    ELSE LET payload == verify_token(authorization[2], t)
             user == get_user_by_username(table, payload.sub)
         IN  IF payload = None THEN NULL
             ELSE IF user # None THEN user.user_id
             ELSE NULL

----------------------------------------------------------------------------
(* HTTP POST /predict: api/routes/predictions.py *)

HTTPException(status_code, detail) ==
    [type |-> "HTTPException", msg |-> detail, status_code |-> status_code]

HttpResponse(status, detail, body) ==
    [status |-> status, detail |-> detail, body |-> body]

allowed_types == {"image/jpeg", "image/png", "image/webp", "image/jpg"}

SmilingJpeg == CHOOSE i \in ImageInputs : i.kind = "image" /\ i.face = "smiling"

\* The uploads a client may send: a declared content type and the bytes.
Uploads ==
    { [content_type |-> "image/jpeg", bytes |-> image_bytes] :
          image_bytes \in ImageInputs }
    \cup { [content_type |-> "text/plain", bytes |-> SmilingJpeg] }

\* The environment of a request served by a transport: the database is
\* reachable for the whole request or for none of it.
TransportEnvs == {env \in Envs : env.query_fails = env.commit_fails}

\* The keyword arguments both transports call predict_emotion with.
TransportKwargs == {"image_bytes", "db", "source_ip", "user_id"}

\* The try block of the route calling predict_emotion with the parameters
\* it declares (no user_id).
PredictRouteTryDeclaredParams(image_bytes, current_user, source_ip, env) ==
    IF ByteLen(image_bytes) = 0
    THEN Outcome(Raise(HTTPException(400, "El archivo esta vacio")),
                 predictions_log, FALSE)
    ELSE CallPredictEmotion(PredictEmotionParams, predictions_log, model_version,
                            ml_model, image_bytes, source_ip, env)

\* The try block of the route: read the body, reject an empty one, call
\* the orchestrator.
PredictRouteTry(image_bytes, current_user, source_ip, env) ==
    IF ByteLen(image_bytes) = 0
    THEN Outcome(Raise(HTTPException(400, "El archivo esta vacio")),
                 predictions_log, FALSE)
    ELSE CallPredictEmotion(TransportKwargs, predictions_log, model_version,
                            ml_model, image_bytes, source_ip, env)

\* The except clauses of the route, in their order: ValueError -> 400 with
\* the exception's text, any other Exception (HTTPException included) ->
\* 500 with a fixed text.
PredictRouteExcept(out) ==
    IF ~out.raised THEN HttpResponse(200, "", out.value)
    ELSE IF IsValueError(out.exc) THEN HttpResponse(400, out.exc.msg, None)
    ELSE HttpResponse(500, "Error interno del servidor al procesar la imagen", None)

\* The replies of runs that differ from this one only in the text of the
\* exception raised.
OtherMessages == {"another message", "yet another message"}
WithMessage(out, m) == [out EXCEPT !.exc = [out.exc EXCEPT !.msg = m]]

\* POST /predict
predict_emotion_route(content_type, image_bytes, authorization, source_ip, env) ==
    LET current_user == get_current_user_optional(authorization, users, now)
        rejected == content_type \notin allowed_types
        out == PredictRouteTry(image_bytes, current_user, source_ip, env)
        response ==
            IF rejected
            THEN HttpResponse(400, "Tipo de archivo no permitido", None)
            ELSE PredictRouteExcept(out)
        internal == ~rejected /\ out.raised /\ ~IsValueError(out.exc)
                    /\ out.exc.type # "HTTPException"
    IN  /\ Len(predictions_log) < MaxLog
        /\ predictions_log' = IF rejected THEN predictions_log ELSE out.log
        /\ last' = [op |-> "http_predict", content_type |-> content_type,
                    image |-> image_bytes, authorization |-> authorization,
                    current_user |-> current_user, env |-> env,
                    log_before |-> predictions_log,
                    internal |-> internal, reply |-> response,
                    alt |-> IF internal
                            THEN {PredictRouteExcept(WithMessage(out, m)) :
                                      m \in OtherMessages}
                            ELSE {}]
        /\ UNCHANGED <<users, model_version, now, tokens, connected_clients,
                       ws_open, ml_model, ws_io, db_schema, applied,
                   ml_service, register_reqs, db_sessions>>

----------------------------------------------------------------------------
(* HTTP GET /health: api/routes/health.py *)

\* health_check(db); db_error is the text of the exception the probe query
\* raises, "" when it raises none.
health_check(db_error) ==
    IF db_error = ""
    THEN [status |-> "healthy", service |-> "VisionAI Backend",
          components |-> [api |-> "running",
                          model |-> IF ml_model = "none" THEN "not_loaded" ELSE "loaded",
                          database |-> "connected"]]
    ELSE [status |-> "unhealthy", service |-> "VisionAI Backend",
          error |-> db_error]

\* GET /health
health_check_route(db_error) ==
    /\ last' = [op |-> "http_health", internal |-> db_error # "",
                reply |-> health_check(db_error),
                alt |-> IF db_error # ""
                        THEN {health_check(m) : m \in OtherMessages}
                        ELSE {}]
    /\ UNCHANGED <<users, model_version, predictions_log, now, tokens,
                   connected_clients, ws_open, ml_model, ws_io, db_schema, applied,
                   ml_service, register_reqs, db_sessions>>

----------------------------------------------------------------------------
(* HTTP GET /dashboard/...: api/routes/dashboard.py *)

\* The rows of a table kept as a sequence.
Rows(log) == {log[i] : i \in 1..Len(log)}

\* func.count(...) and func.avg(PredictionsLog.confidence) over a set of
\* rows; the average is the pair <<sum, count>>, and None for no rows.
RECURSIVE SumConfidence(_)
SumConfidence(rows) ==
    IF rows = {} THEN 0
    ELSE LET r == CHOOSE r \in rows : TRUE
         IN  r.confidence + SumConfidence(rows \ {r})

Avg(rows) == IF rows = {} THEN None ELSE <<SumConfidence(rows), Cardinality(rows)>>

\* float(avg or 0.0): None and an average of zero both give 0.0.
AvgOrZero(avg) == IF avg = None \/ avg[1] = 0 THEN <<0, 1>> ELSE avg

\* The grouped query counting the emotion of a group (COUNT(DISTINCT
\* emotion_id)) instead of its rows.
PredictionsByEmotionCountingGroups(log) ==
    LET joined == {e \in emotion_class :
                      \E r \in Rows(log) : r.emotion_id = e.emotion_id}
    IN  { [emotion_name |-> e.emotion_name, count |-> 1] : e \in joined }

\* emotion_class JOIN predictions_log GROUP BY emotion_name: the count of
\* rows per emotion that has rows.
PredictionsByEmotion(log) ==
    LET joined == {e \in emotion_class :
                      \E r \in Rows(log) : r.emotion_id = e.emotion_id}
    IN  { [emotion_name |-> e.emotion_name,
           count |-> Cardinality({r \in Rows(log) : r.emotion_id = e.emotion_id})] :
          e \in joined }

\* ORDER BY count DESC ... first(): a group no other group outnumbers; the
\* database is free to return any of them on a tie.
MostCommon(log) ==
    {g \in PredictionsByEmotion(log) :
        \A o \in PredictionsByEmotion(log) : o.count <= g.count}

\* What a dashboard request leaves alone: everything but `last`.
DashboardFrame ==
    UNCHANGED <<users, model_version, predictions_log, now, tokens,
                connected_clients, ws_open, ml_model, ws_io, db_schema, applied,
                   ml_service, register_reqs, db_sessions>>

\* GET /dashboard/stats
get_statistics(db_fails, most_common) ==
    /\ most_common \in MostCommon(predictions_log) \cup {None}
    /\ most_common = None <=> (db_fails \/ MostCommon(predictions_log) = {})
    /\ last' = IF db_fails
               THEN [op |-> "dashboard_stats", status |-> 500,
                     detail |-> "Error al obtener estadisticas", body |-> None]
               ELSE [op |-> "dashboard_stats", status |-> 200, detail |-> "",
                     body |-> [total_predictions |-> Len(predictions_log),
                               most_common_emotion |->
                                   IF most_common = None
                                   THEN [name |-> None, count |-> 0]
                                   ELSE [name |-> most_common.emotion_name,
                                         count |-> most_common.count],
                               average_confidence |->
                                   AvgOrZero(Avg(Rows(predictions_log))),
                               predictions_by_emotion |->
                                   PredictionsByEmotion(predictions_log)]]
    /\ DashboardFrame

\* get_recent_predictions trimming the table to the rows it returns.
GetRecentPredictionsPruning(limit, db_fails) ==
    /\ limit >= 1
    /\ ~db_fails
    /\ predictions_log' =
           SubSeq(predictions_log,
                  IF limit < Len(predictions_log)
                  THEN Len(predictions_log) + 1 - limit ELSE 1,
                  Len(predictions_log))
    /\ last' = [op |-> "dashboard_recent", status |-> 200, detail |-> "",
                body |-> [count |-> Len(predictions_log')]]
    /\ UNCHANGED <<users, model_version, now, tokens, connected_clients,
                   ws_open, ml_model, ws_io, db_schema, applied,
                   ml_service, register_reqs, db_sessions>>

\* ORDER BY timestamp DESC LIMIT limit; timestamps grow with the insert
\* order, so these are the last `limit` rows, newest first.
RecentRows(log, limit) ==
    LET n == IF limit < Len(log) THEN limit ELSE Len(log)
    IN  [i \in 1..n |-> log[Len(log) + 1 - i]]

EmotionName(emotion_id) ==
    (CHOOSE e \in emotion_class : e.emotion_id = emotion_id).emotion_name

\* GET /dashboard/recent?limit=...; Query(10, ge=1, le=100) is checked by
\* the framework before the handler runs.
get_recent_predictions(limit, db_fails) ==
    /\ last' = IF limit < 1 \/ limit > 100
               THEN [op |-> "dashboard_recent", status |-> 422,
                     detail |-> "limit", body |-> None]
               ELSE IF db_fails
               THEN [op |-> "dashboard_recent", status |-> 500,
                     detail |-> "Error al obtener predicciones recientes",
                     body |-> None]
               ELSE LET predictions == RecentRows(predictions_log, limit)
                    IN  [op |-> "dashboard_recent", status |-> 200, detail |-> "",
                         body |-> [count |-> Len(predictions),
                                   predictions |->
                                       [i \in DOMAIN predictions |->
                                           [id |-> predictions[i].predic_id,
                                            timestamp |-> predictions[i].timestamp,
                                            emotion |-> EmotionName(predictions[i].emotion_id),
                                            confidence |-> predictions[i].confidence,
                                            source_ip |-> predictions[i].source_ip]]]]
    /\ DashboardFrame


\* timedelta(days=d) in seconds, and func.date(timestamp) as a day number.
Days(d) == d * 86400
Date(t) == t \div 86400

\* GET /dashboard/timeline?days=...; Query(7, ge=1, le=30).
get_predictions_timeline(days, db_fails) ==
    /\ last' = IF days < 1 \/ days > 30
               THEN [op |-> "dashboard_timeline", status |-> 422,
                     detail |-> "days", body |-> None]
               ELSE IF db_fails
               THEN [op |-> "dashboard_timeline", status |-> 500,
                     detail |-> "Error al obtener timeline", body |-> None]
               ELSE LET start_date == now - Days(days)
                        recent == {r \in Rows(predictions_log) :
                                      r.timestamp >= start_date}
                    IN  [op |-> "dashboard_timeline", status |-> 200, detail |-> "",
                         body |-> [period_days |-> days,
                                   timeline |->
                                       { [date |-> d,
                                          count |-> Cardinality({r \in recent :
                                                        Date(r.timestamp) = d})] :
                                         d \in {Date(r.timestamp) : r \in recent} }]]
    /\ DashboardFrame

EmotionNames == {"happy", "sad", "bored"}

\* GET /dashboard/emotion/{emotion_name}: 404 for a name emotion_class does
\* not hold (the HTTPException is re-raised as it is), 500 for an error.
get_emotion_stats(emotion_name, db_fails) ==
    /\ last' = IF db_fails
               THEN [op |-> "dashboard_emotion", status |-> 500,
                     detail |-> "Error al obtener estadisticas de emocion",
                     body |-> None]
               ELSE IF ~\E e \in emotion_class : e.emotion_name = emotion_name
               THEN [op |-> "dashboard_emotion", status |-> 404,
                     detail |-> <<"Emocion no encontrada", emotion_name>>,
                     body |-> None]
               ELSE LET emotion == CHOOSE e \in emotion_class :
                                       e.emotion_name = emotion_name
                        of_emotion == {r \in Rows(predictions_log) :
                                          r.emotion_id = emotion.emotion_id}
                    IN  [op |-> "dashboard_emotion", status |-> 200, detail |-> "",
                         body |-> [emotion |-> [id |-> emotion.emotion_id,
                                                name |-> emotion.emotion_name],
                                   statistics |->
                                       [total_predictions |-> Cardinality(of_emotion),
                                        average_confidence |-> AvgOrZero(Avg(of_emotion)),
                                        last_prediction |->
                                            IF of_emotion = {} THEN None
                                            ELSE (CHOOSE r \in of_emotion :
                                                     \A o \in of_emotion :
                                                         o.predic_id <= r.predic_id).timestamp]]]
    /\ DashboardFrame

----------------------------------------------------------------------------
(* WebSocket endpoint /ws: main.py *)

\* JSON values of a message: a string, or a number (written as its text).
Str(v) == [type |-> "str", v |-> v]
Num(v) == [type |-> "int", v |-> v]

\* The "image" field: base64 text that decodes to `image_bytes`, or text
\* base64.b64decode rejects.
B64(image_bytes) == [b64 |-> "valid", bytes |-> image_bytes]
BadB64 == [b64 |-> "invalid"]

\* The JSON objects a client may send at time t.
WsMessages(t) ==
    { [note |-> "hello"],
      [command |-> Str("fly")],
      [command |-> Num("7")],
      [command |-> Str("Health")],
      [command |-> Str("emotions")],
      [command |-> Str("model_info")],
      [command |-> Str("predict")],
      [command |-> Str("predict"), image |-> BadB64] }
    \cup { [command |-> Str("PREDICT"), image |-> B64(image_bytes)] :
               image_bytes \in ImageInputs }
    \cup { [command |-> Str("predict"), image |-> B64(SmilingJpeg), token |-> token] :
               token \in TransportTokens(t) }

\* The text frames a client may send: text that is not JSON, JSON that is
\* not an object, a JSON object.
WsFrames(t) ==
    { [json |-> "invalid"], [json |-> "array"] }
    \cup { [json |-> "object", msg |-> message] : message \in WsMessages(t) }

WsError(message) == [type |-> "error", message |-> message]

WsResult(reply, closes, log, internal, alt) ==
    [reply |-> reply, closes |-> closes, log |-> log, internal |-> internal,
     alt |-> alt]

\* handle_predict: the user_id taken from the message's token.
HandlePredictUserId(message, table, t) ==
    IF "token" \notin DOMAIN message THEN NULL
    ELSE LET payload == verify_token(message.token, t)
             user == get_user_by_username(table, payload.sub)
         IN  IF payload = None THEN NULL
             ELSE IF user # None THEN user.user_id
             ELSE NULL

\* handle_predict: the reply for what predict_emotion returned or raised.
HandlePredictExcept(out, user_id) ==
    IF ~out.raised
    THEN [type |-> "prediction", status |-> "success",
          emotion_name |-> out.value.emotion_name,
          confidence |-> out.value.confidence,
          model_version_tag |-> out.value.model_version_tag,
          processing_time_ms |-> out.value.processing_time_ms,
          user_id |-> user_id]
    ELSE IF IsValueError(out.exc) THEN WsError(out.exc.msg)
    ELSE WsError("Error interno del servidor")

\* handle_predict(websocket, message, db)
handle_predict(message, client_ip, env) ==
    LET user_id == HandlePredictUserId(message, users, now)
        out == CallPredictEmotion(TransportKwargs, predictions_log, model_version,
                                  ml_model, message.image.bytes, client_ip, env)
        internal == out.raised /\ ~IsValueError(out.exc)
    IN  IF "image" \notin DOMAIN message
        THEN WsResult(WsError("Campo 'image' requerido"), FALSE, predictions_log,
                      FALSE, {})
        ELSE IF message.image = BadB64
        THEN WsResult(WsError("Error al decodificar imagen"), FALSE,
                      predictions_log, FALSE, {})
        ELSE IF ByteLen(message.image.bytes) = 0
        THEN WsResult(WsError("La imagen esta vacia"), FALSE, predictions_log,
                      FALSE, {})
        ELSE WsResult(HandlePredictExcept(out, user_id), FALSE, out.log, internal,
                      IF internal
                      THEN {HandlePredictExcept(WithMessage(out, m), user_id) :
                                m \in OtherMessages}
                      ELSE {})

\* handle_get_emotions(websocket, db)
handle_get_emotions(env) ==
    IF env.query_fails
    THEN WsResult(WsError("Error al obtener lista de emociones"), FALSE,
                  predictions_log, TRUE,
                  {WsError("Error al obtener lista de emociones")})
    ELSE WsResult([type |-> "emotions", status |-> "success",
                   emotions |-> emotion_class],
                  FALSE, predictions_log, FALSE, {})

\* handle_get_model_info(websocket)
handle_get_model_info ==
    WsResult([type |-> "model_info", status |-> "success",
              info |-> [status |-> IF ml_model = "none" THEN "not_loaded" ELSE "loaded"]],
             FALSE, predictions_log, FALSE, {})

\* handle_health_check(websocket)
handle_health_check ==
    WsResult([type |-> "health", status |-> "healthy",
              clients_connected |-> Cardinality(connected_clients)],
             FALSE, predictions_log, FALSE, {})

\* The outer except of websocket_endpoint: an exception that is not a
\* disconnect is answered with a fixed error and ends the handler.
WsEndpointExcept ==
    WsResult(WsError("Error interno del servidor"), TRUE, predictions_log, TRUE,
             {WsError("Error interno del servidor")})

\* One turn of the message loop for a received text frame: json.loads,
\* message.get("command", "").lower(), the dispatch.
WsLoopTurn(frame, client_ip, env) ==
    IF frame.json = "invalid" THEN WsEndpointExcept          \* JSONDecodeError
    ELSE IF frame.json # "object" THEN WsEndpointExcept      \* no .get on a list
    ELSE LET message == frame.msg
             raw == IF "command" \in DOMAIN message THEN message.command ELSE Str("")
             command == Lower(raw.v)
         IN  IF raw.type # "str" THEN WsEndpointExcept       \* no .lower on a number
             ELSE IF command = "predict" THEN handle_predict(message, client_ip, env)
             ELSE IF command = "emotions" THEN handle_get_emotions(env)
             ELSE IF command = "model_info" THEN handle_get_model_info
             ELSE IF command = "health" THEN handle_health_check
             ELSE WsResult([type |-> "error", message |-> <<"Comando desconocido", command>>],
                           FALSE, predictions_log, FALSE, {})

\* websocket_endpoint with db.close() at the end of the try block instead of
\* in the finally clause: a failed welcome send leaves the session open.
WsConnectLeakingSession(websocket, welcome_sent) ==
    /\ websocket \notin connected_clients
    /\ connected_clients' = IF welcome_sent THEN connected_clients \cup {websocket}
                            ELSE connected_clients \ {websocket}
    /\ ws_open' = IF welcome_sent THEN ws_open \cup {websocket} ELSE ws_open
    /\ db_sessions' = db_sessions \cup {websocket}
    /\ last' = [op |-> "ws_connect", conn |-> websocket, internal |-> FALSE,
                reply |-> IF welcome_sent
                          THEN [type |-> "connection", status |-> "connected"]
                          ELSE None,
                alt |-> {}]
    /\ UNCHANGED <<users, model_version, predictions_log, now, tokens, ml_model,
                   ws_io, db_schema, applied, ml_service, register_reqs>>

\* A client connects: accept, register, open the session, send the welcome
\* message; a failed send ends the handler through its finally clause.
ws_connect(websocket, welcome_sent) ==
    /\ websocket \notin connected_clients
    /\ connected_clients' = IF welcome_sent THEN connected_clients \cup {websocket}
                            ELSE connected_clients \ {websocket}
    /\ ws_open' = IF welcome_sent THEN ws_open \cup {websocket} ELSE ws_open
    /\ db_sessions' = IF welcome_sent THEN db_sessions \cup {websocket}
                      ELSE db_sessions \ {websocket}
    /\ last' = [op |-> "ws_connect", conn |-> websocket, internal |-> FALSE,
                reply |-> IF welcome_sent
                          THEN [type |-> "connection", status |-> "connected"]
                          ELSE None,
                alt |-> {}]
    /\ UNCHANGED <<users, model_version, predictions_log, now, tokens, ml_model,
                   ws_io, db_schema, applied, ml_service, register_reqs>>

\* A text frame arrives on an open connection and is handled.
ws_receive(websocket, frame, client_ip, env) ==
    LET turn == WsLoopTurn(frame, client_ip, env)
    IN  /\ websocket \in ws_open
        /\ Len(predictions_log) < MaxLog
        /\ predictions_log' = turn.log
        /\ connected_clients' = IF turn.closes THEN connected_clients \ {websocket}
                                ELSE connected_clients
        /\ ws_open' = IF turn.closes THEN ws_open \ {websocket} ELSE ws_open
        /\ db_sessions' = IF turn.closes THEN db_sessions \ {websocket}
                          ELSE db_sessions
        /\ last' = [op |-> "ws_message", conn |-> websocket, frame |-> frame,
                    env |-> env, log_before |-> predictions_log,
                    internal |-> turn.internal, reply |-> turn.reply,
                    alt |-> turn.alt]
        /\ UNCHANGED <<users, model_version, now, tokens, ml_model, ws_io,
                       db_schema, applied, ml_service, register_reqs>>

\* websocket_endpoint without connected_clients.discard in its finally
\* clause, for a client that goes away.
WsDisconnectKeepingClient(websocket) ==
    /\ websocket \in ws_open
    /\ connected_clients' = connected_clients
    /\ ws_open' = ws_open \ {websocket}
    /\ db_sessions' = db_sessions \ {websocket}
    /\ last' = [op |-> "ws_disconnect", conn |-> websocket, internal |-> FALSE,
                reply |-> None, alt |-> {}]
    /\ UNCHANGED <<users, model_version, predictions_log, now, tokens, ml_model,
                   ws_io, db_schema, applied, ml_service, register_reqs>>

\* The client goes away: receive_text raises WebSocketDisconnect.
ws_disconnect(websocket) ==
    /\ websocket \in ws_open
    /\ connected_clients' = connected_clients \ {websocket}
    /\ ws_open' = ws_open \ {websocket}
    /\ db_sessions' = db_sessions \ {websocket}
    /\ last' = [op |-> "ws_disconnect", conn |-> websocket, internal |-> FALSE,
                reply |-> None, alt |-> {}]
    /\ UNCHANGED <<users, model_version, predictions_log, now, tokens, ml_model,
                   ws_io, db_schema, applied, ml_service, register_reqs>>

----------------------------------------------------------------------------
(* The WebSocket message loop, frame by frame *)

\* The frames sent in all so far: read, or still in flight.
FramesSent ==
    LET RECURSIVE Total(_)
        Total(conns) ==
            IF conns = {} THEN 0
            ELSE LET c == CHOOSE c \in conns : TRUE
                 IN  Len(ws_io[c].read) + Len(ws_io[c].inbox) + Total(conns \ {c})
    IN  Total(WebSockets)

\* What a step on the message loop leaves alone.
WsFrame ==
    UNCHANGED <<users, model_version, now, tokens, ml_model, db_schema, applied,
                ml_service, register_reqs>>

\* The client sends a text frame; it waits until the handler reads it.
ws_client_send(websocket, frame) ==
    /\ websocket \in ws_open
    /\ FramesSent < MaxFrames
    /\ ws_io' = [ws_io EXCEPT ![websocket].inbox = Append(@, frame)]
    /\ last' = [op |-> "ws_client_send", conn |-> websocket, internal |-> FALSE,
                reply |-> None, alt |-> {}]
    /\ UNCHANGED <<predictions_log, connected_clients, ws_open, db_sessions>>
    /\ WsFrame

\* The handler reading frames while a dispatch is still running, as it
\* would with the dispatch started as a task it does not await.
WsReceiveTextWhileHandling(websocket) ==
    /\ websocket \in ws_open
    /\ ws_io[websocket].inbox # <<>>
    /\ ws_io' = [ws_io EXCEPT ![websocket] =
                     [@ EXCEPT !.pc = "handle",
                               !.frame = Head(ws_io[websocket].inbox),
                               !.inbox = Tail(ws_io[websocket].inbox),
                               !.read = Append(ws_io[websocket].read,
                                               Head(ws_io[websocket].inbox))]]
    /\ last' = [op |-> "ws_receive_text", conn |-> websocket, internal |-> FALSE,
                reply |-> None, alt |-> {}]
    /\ UNCHANGED <<predictions_log, connected_clients, ws_open, db_sessions>>
    /\ WsFrame

\* data = await websocket.receive_text(): the handler, at the top of its
\* loop, takes the oldest frame in flight.
ws_receive_text(websocket) ==
    /\ websocket \in ws_open
    /\ ws_io[websocket].pc = "receive"
    /\ ws_io[websocket].inbox # <<>>
    /\ ws_io' = [ws_io EXCEPT ![websocket] =
                     [@ EXCEPT !.pc = "handle",
                               !.frame = Head(ws_io[websocket].inbox),
                               !.inbox = Tail(ws_io[websocket].inbox),
                               !.read = Append(ws_io[websocket].read,
                                               Head(ws_io[websocket].inbox))]]
    /\ last' = [op |-> "ws_receive_text", conn |-> websocket, internal |-> FALSE,
                reply |-> None, alt |-> {}]
    /\ UNCHANGED <<predictions_log, connected_clients, ws_open, db_sessions>>
    /\ WsFrame

\* The rest of the loop turn for the frame read: json.loads, the dispatch,
\* the reply; then back to receive_text, or out of the loop through the
\* outer except and finally.
ws_dispatch(websocket, client_ip, env) ==
    LET io == ws_io[websocket]
        turn == WsLoopTurn(io.frame, client_ip, env)
    IN  /\ websocket \in ws_open
        /\ io.pc = "handle"
        /\ Len(predictions_log) < MaxLog
        /\ predictions_log' = turn.log
        /\ connected_clients' = IF turn.closes THEN connected_clients \ {websocket}
                                ELSE connected_clients
        /\ ws_open' = IF turn.closes THEN ws_open \ {websocket} ELSE ws_open
        /\ db_sessions' = IF turn.closes THEN db_sessions \ {websocket}
                          ELSE db_sessions
        /\ ws_io' = [ws_io EXCEPT ![websocket] =
                         [@ EXCEPT !.pc = "receive", !.frame = None,
                                   !.sent = Append(io.sent,
                                                   [re |-> Len(io.read),
                                                    frame |-> io.frame,
                                                    reply |-> turn.reply])]]
        /\ last' = [op |-> "ws_message", conn |-> websocket, frame |-> io.frame,
                    env |-> env, log_before |-> predictions_log,
                    internal |-> turn.internal, reply |-> turn.reply,
                    alt |-> turn.alt]
        /\ WsFrame

\* The frames of a session: text that is no JSON, an unknown verb, the
\* health command, a predict command with a decodable image.
SessionFrames ==
    { [json |-> "invalid"],
      [json |-> "object", msg |-> [command |-> Str("fly")]],
      [json |-> "object", msg |-> [command |-> Str("Health")]],
      [json |-> "object", msg |-> [command |-> Str("PREDICT"), image |-> B64(SmilingJpeg)]] }

InitWs ==
    /\ InitCommon
    /\ users = create_user({}, "alice", "secret1")
    /\ model_version = ModelVersionSeed

NextWs ==
    \/ \E websocket \in WebSockets :
           ws_io[websocket] = IdleIo /\ ws_connect(websocket, TRUE)
    \/ \E websocket \in WebSockets, frame \in SessionFrames :
           ws_client_send(websocket, frame)
    \/ \E websocket \in WebSockets : ws_receive_text(websocket)
    \/ \E websocket \in WebSockets, client_ip \in ClientIps, env \in TransportEnvs :
           ws_dispatch(websocket, client_ip, env)
    \/ \E websocket \in WebSockets :
           /\ ws_io[websocket].pc = "receive"
           /\ ws_io[websocket].inbox = <<>>
           /\ ws_disconnect(websocket)

SpecWs == InitWs /\ [][NextWs]_vars

----------------------------------------------------------------------------
(* Schema migrations: alembic/versions *)

\* The operations a migration issues.
CreateTable(t, columns, fks) ==
    [kind |-> "create_table", table |-> t, columns |-> columns, fks |-> fks]
ExecuteInsert(t) == [kind |-> "execute_insert", table |-> t]
AddColumn(t, c, nullable) ==
    [kind |-> "add_column", table |-> t, name |-> c, nullable |-> nullable]
DropColumn(t, c) == [kind |-> "drop_column", table |-> t, name |-> c]
CreateForeignKey(name, t, ref, c, ref_c) ==
    [kind |-> "create_foreign_key", table |-> t, name |-> name, ref |-> ref,
     column |-> c, ref_column |-> ref_c]
AlterColumn(t, c, nullable) ==
    [kind |-> "alter_column", table |-> t, name |-> c, nullable |-> nullable]
DropConstraint(name, t) == [kind |-> "drop_constraint", table |-> t, name |-> name]
DropTable(t) == [kind |-> "drop_table", table |-> t]

\* A database: its schema and the rows of the tables the model follows.
Database(schema, versions, log, user_rows) ==
    [schema |-> schema, model_version |-> versions, predictions_log |-> log,
     users |-> user_rows]

HasTable(db, t) == TableFact(t) \in db.schema
HasColumn(db, t, c) == \E nullable \in BOOLEAN : Column(t, c, nullable) \in db.schema
HasRows(db, t) ==
    CASE t = "predictions_log" -> db.predictions_log # <<>>
      [] t = "model_version" -> db.model_version # {}
      [] t = "users" -> db.users # {}
      [] OTHER -> HasTable(db, t)      \* emotion_class holds its seed rows

SqlError(msg, what) == Raise(Exc("ProgrammingError", <<msg, what>>))

\* One operation run by PostgreSQL: the database after it, or the error.
ApplyOp(db, op) ==
    CASE op.kind = "create_table" ->
           IF HasTable(db, op.table) THEN SqlError("relation already exists", op.table)
           ELSE IF \E fk \in op.fks : ~HasTable(db, fk.ref)
           THEN SqlError("relation does not exist", op.table)
           ELSE Return([db EXCEPT !.schema =
                           @ \cup {TableFact(op.table)} \cup op.columns \cup op.fks])
      [] op.kind = "execute_insert" ->
           IF ~HasTable(db, op.table) THEN SqlError("relation does not exist", op.table)
           ELSE IF op.table = "model_version"
           THEN Return([db EXCEPT !.model_version = ModelVersionSeed])
           ELSE Return(db)
      [] op.kind = "add_column" ->
           IF ~HasTable(db, op.table) THEN SqlError("relation does not exist", op.table)
           ELSE IF HasColumn(db, op.table, op.name)
           THEN SqlError("column already exists", op.name)
           ELSE IF ~op.nullable /\ HasRows(db, op.table)
           THEN SqlError("column contains null values", op.name)
           ELSE Return([db EXCEPT !.schema =
                           @ \cup {Column(op.table, op.name, op.nullable)}])
      [] op.kind = "drop_column" ->
           IF ~HasColumn(db, op.table, op.name)
           THEN SqlError("column does not exist", op.name)
           ELSE Return([db EXCEPT !.schema =
                           {f \in @ : ~(f.kind = "column" /\ f.table = op.table
                                        /\ f.name = op.name)}])
      [] op.kind = "create_foreign_key" ->
           IF ~HasTable(db, op.table) \/ ~HasTable(db, op.ref)
           THEN SqlError("relation does not exist", op.ref)
           ELSE IF ~HasColumn(db, op.table, op.column)
                   \/ ~HasColumn(db, op.ref, op.ref_column)
           THEN SqlError("column does not exist", op.column)
           ELSE Return([db EXCEPT !.schema =
                           @ \cup {ForeignKey(op.table, op.name, op.ref)}])
      [] op.kind = "alter_column" ->
           IF ~HasColumn(db, op.table, op.name)
           THEN SqlError("column does not exist", op.name)
           ELSE Return([db EXCEPT !.schema =
                           {f \in @ : ~(f.kind = "column" /\ f.table = op.table
                                        /\ f.name = op.name)}
                           \cup {Column(op.table, op.name, op.nullable)}])
      [] op.kind = "drop_constraint" ->
           IF ~\E f \in db.schema : f.kind = "fk" /\ f.table = op.table
                                     /\ f.name = op.name
           THEN SqlError("constraint does not exist", op.name)
           ELSE Return([db EXCEPT !.schema =
                           {f \in @ : ~(f.kind = "fk" /\ f.table = op.table
                                        /\ f.name = op.name)}])
      [] op.kind = "drop_table" ->
           IF ~HasTable(db, op.table) THEN SqlError("table does not exist", op.table)
           ELSE IF \E f \in db.schema : f.kind = "fk" /\ f.ref = op.table
                                         /\ f.table # op.table
           THEN SqlError("other objects depend on it", op.table)
           ELSE Return([db EXCEPT
                           !.schema = {f \in @ : f.table # op.table},
                           !.model_version =
                               IF op.table = "model_version" THEN {} ELSE @,
                           !.predictions_log =
                               IF op.table = "predictions_log" THEN <<>> ELSE @,
                           !.users = IF op.table = "users" THEN {} ELSE @])

\* The operations of one upgrade() or downgrade(), run in one transaction:
\* the database after the last of them, or the first error (and then the
\* database is left as it was).
RECURSIVE ApplyOps(_, _)
ApplyOps(db, ops) ==
    IF ops = <<>> THEN Return(db)
    ELSE LET first == ApplyOp(db, Head(ops))
         IN  IF first.raised THEN first ELSE ApplyOps(first.value, Tail(ops))

\* The columns of a table of OrmColumns, as a migration would create them.
ColumnsOf(t) == {c \in OrmColumns : c.table = t}

BASE == "base"      \* down_revision = None

\* 70e6b1d67179_creacion_de_tablas_iniciales.py
Upgrade_70e6b1d67179 ==
    << CreateTable("emotion_class", ColumnsOf("emotion_class"), {}),
       CreateTable("model_version", ColumnsOf("model_version"), {}),
       CreateTable("predictions_log",
                   ColumnsOf("predictions_log")
                       \ {Column("predictions_log", "user", TRUE)},
                   { ForeignKey("predictions_log",
                                "predictions_log_emotion_id_fkey", "emotion_class"),
                     ForeignKey("predictions_log",
                                "predictions_log_model_id_fkey", "model_version") }),
       ExecuteInsert("emotion_class"),
       ExecuteInsert("model_version") >>

Downgrade_70e6b1d67179 ==
    << DropTable("predictions_log"), DropTable("model_version"),
       DropTable("emotion_class") >>

\* Revision 79fc21215224, the predecessor a8ae8804d8b9 names: it creates the
\* users table.
Upgrade_79fc21215224 == << CreateTable("users", ColumnsOf("users"), {}) >>

Downgrade_79fc21215224 == << DropTable("users") >>

\* a8ae8804d8b9 without its add_column.
UpgradeWithoutUserColumn == << >>

\* a8ae8804d8b9_add_user_column_to_predictions_log.py
Upgrade_a8ae8804d8b9 == << AddColumn("predictions_log", "user", TRUE) >>

Downgrade_a8ae8804d8b9 == << DropColumn("predictions_log", "user") >>

\* 112ffe1aebec_change_user_to_user_id_in_predictions_.py
Upgrade_112ffe1aebec ==
    << DropColumn("predictions_log", "user"),
       AddColumn("predictions_log", "user_id", FALSE),
       CreateForeignKey("fk_predictions_log_user_id", "predictions_log",
                        "users", "user_id", "user_id"),
       AlterColumn("predictions_log", "emotion_id", FALSE),
       AlterColumn("predictions_log", "model_id", FALSE) >>

Downgrade_112ffe1aebec ==
    << AlterColumn("predictions_log", "emotion_id", FALSE),
       AlterColumn("predictions_log", "model_id", FALSE),
       DropConstraint("fk_predictions_log_user_id", "predictions_log"),
       DropColumn("predictions_log", "user_id"),
       AddColumn("predictions_log", "user", TRUE) >>

\* bbe293e60950_make_user_id_nullable_in_predictions_log.py
Upgrade_bbe293e60950 == << AlterColumn("predictions_log", "user_id", TRUE) >>

Downgrade_bbe293e60950 == << AlterColumn("predictions_log", "user_id", FALSE) >>

Revision(revision, down_revision, upgrade, downgrade) ==
    [revision |-> revision, down_revision |-> down_revision,
     upgrade |-> upgrade, downgrade |-> downgrade]

\* The scripts of alembic/versions.
Revisions ==
    { Revision("70e6b1d67179", BASE,
               Upgrade_70e6b1d67179, Downgrade_70e6b1d67179),
      Revision("79fc21215224", "70e6b1d67179",
               Upgrade_79fc21215224, Downgrade_79fc21215224),
      Revision("a8ae8804d8b9", "79fc21215224",
               Upgrade_a8ae8804d8b9, Downgrade_a8ae8804d8b9),
      Revision("112ffe1aebec", "a8ae8804d8b9",
               Upgrade_112ffe1aebec, Downgrade_112ffe1aebec),
      Revision("bbe293e60950", "112ffe1aebec",
               Upgrade_bbe293e60950, Downgrade_bbe293e60950) }

RevisionIds == {r.revision : r \in Revisions}

\* alembic's revision map: the revisions no script names as predecessor, the
\* ones with no predecessor, and whether the links hold together.
Heads == {r \in Revisions : ~\E o \in Revisions : o.down_revision = r.revision}
Bases == {r \in Revisions : r.down_revision = BASE}
Successors(id) == {r \in Revisions : r.down_revision = id}
RevisionMapOk ==
    /\ \A r \in Revisions : r.down_revision \in RevisionIds \cup {BASE}
    /\ Cardinality(RevisionIds) = Cardinality(Revisions)

\* The revision the database is at (the row of alembic_version).
Current == IF applied = <<>> THEN BASE ELSE applied[Len(applied)]

Script(id) == CHOOSE r \in Revisions : r.revision = id

\* The database the variables hold.
TheDatabase == Database(db_schema, model_version, predictions_log, users)

\* The revisions from revision `from` up to the head, walked along the links;
\* <<>> where the walk meets a branch.
RECURSIVE UpgradePath(_, _)
UpgradePath(from, fuel) ==
    IF fuel = 0 \/ Cardinality(Successors(from)) # 1 THEN <<>>
    ELSE LET r == CHOOSE x \in Successors(from) : TRUE
         IN  <<r.revision>> \o UpgradePath(r.revision, fuel - 1)

\* Run the upgrade() of each script of `path` in turn.
RECURSIVE RunUpgrades(_, _)
RunUpgrades(db, path) ==
    IF path = <<>> THEN Return(db)
    ELSE LET first == ApplyOps(db, Script(Head(path)).upgrade)
         IN  IF first.raised THEN first ELSE RunUpgrades(first.value, Tail(path))

\* Take `n` elements of a sequence.
Take(seq, n) == SubSeq(seq, 1, IF n < Len(seq) THEN n ELSE Len(seq))

\* What every migration command leaves behind.
Migrated(op, path, out) ==
    /\ db_schema' = IF out.raised THEN db_schema ELSE out.value.schema
    /\ model_version' = IF out.raised THEN model_version ELSE out.value.model_version
    /\ predictions_log' =
           IF out.raised THEN predictions_log ELSE out.value.predictions_log
    /\ users' = IF out.raised THEN users ELSE out.value.users
    /\ last' = [op |-> op, before |-> applied, log_before |-> predictions_log,
                path |-> path, ok |-> ~out.raised, out |-> out]
    /\ UNCHANGED <<now, tokens, connected_clients, ws_open, ml_model, ws_io,
                   ml_service, register_reqs, db_sessions>>

\* alembic upgrade head, or alembic upgrade +n: the pending scripts run in one
\* transaction.
alembic_upgrade(steps) ==
    LET pending == UpgradePath(Current, Cardinality(Revisions))
        path == Take(pending, steps)
        out == IF ~RevisionMapOk \/ Cardinality(Heads) # 1
               THEN Raise(Exc("CommandError", "revision map"))
               ELSE RunUpgrades(TheDatabase, path)
    IN  /\ applied' = IF out.raised THEN applied ELSE applied \o path
        /\ Migrated("alembic_upgrade", path, out)

\* alembic downgrade -1: the downgrade() of the current revision.
alembic_downgrade ==
    /\ applied # <<>>
    /\ LET r == applied[Len(applied)]
           out == IF ~RevisionMapOk THEN Raise(Exc("CommandError", "revision map"))
                  ELSE ApplyOps(TheDatabase, Script(r).downgrade)
       IN  /\ applied' = IF out.raised THEN applied
                         ELSE SubSeq(applied, 1, Len(applied) - 1)
           /\ Migrated("alembic_downgrade", <<r>>, out)

\* What the ORM's statements meet in the migrated schema: a SELECT or INSERT
\* names every column the class declares, and an INSERT leaves the columns
\* the class does not declare to their default.
OrmCanSelect(t) ==
    \A c \in ColumnsOf(t) : HasColumn(TheDatabase, t, c.name)
OrmCanInsert(t) ==
    /\ OrmCanSelect(t)
    /\ \A f \in db_schema :
           (f.kind = "column" /\ f.table = t /\ ~f.nullable)
               => \E c \in ColumnsOf(t) : c.name = f.name

SchemaEnv(ms) ==
    [ms |-> ms, query_fails |-> ~OrmCanSelect("model_version"),
     commit_fails |-> ~OrmCanInsert("predictions_log")]

\* predict_emotion against the database as migrated so far.
MigratedPredict(image_bytes, source_ip, ms) ==
    ServicePredict(image_bytes, source_ip, SchemaEnv(ms))

InitMigrate ==
    /\ predictions_log = <<>>
    /\ now = 0
    /\ tokens = {}
    /\ connected_clients = {}
    /\ ws_open = {}
    /\ ml_model = "loaded"
    /\ ws_io = [websocket \in WebSockets |-> IdleIo]
    /\ db_schema = {}
    /\ applied = <<>>
    /\ ml_service = Imported
    /\ register_reqs = [w \in Workers |-> Idle]
    /\ db_sessions = {}
    /\ users = {}
    /\ model_version = {}
    /\ last = Started

NextMigrate ==
    \/ \E steps \in 1..Cardinality(Revisions) : alembic_upgrade(steps)
    \/ alembic_downgrade
    \/ \E image_bytes \in ImageInputs, source_ip \in ClientIps,
          ms \in 0..MaxElapsedMs :
           MigratedPredict(image_bytes, source_ip, ms)

SpecMigrate == InitMigrate /\ [][NextMigrate]_vars

----------------------------------------------------------------------------
(* The inference wrapper as a service: MLService and its singleton *)

MaxLoads == 3       \* calls of _load_model in all, the one at import included

\* The tensors a caller may hand to predict: what preprocess_image returns
\* for the two faces, and arrays of other shapes.
Tensors ==
    { [shape |-> sh, min |-> 0, max |-> 255, den |-> 255, face |-> f] :
        sh \in { <<1, 96, 96, 3>>, <<1, 48, 48, 3>>, <<96, 96, 3>>,
                 <<1, 96, 96, 1>>, <<2, 96, 96, 3>> },
        f \in {"smiling", "crying"} }

\* Whether MLService.predict reaches self._model.predict for this call.
InferenceRan(model, image_array) ==
    model # "none" /\ image_array.shape = <<1, 96, 96, 3>>

\* What the actions on the service leave alone.
MlFrame ==
    UNCHANGED <<users, model_version, predictions_log, now, tokens,
                connected_clients, ws_open, ws_io, db_schema, applied,
                register_reqs, db_sessions>>

\* MLService._load_model(), called with self._model = model: the model it
\* leaves in self._model, and whether it raised.
LoadModel(model, load_ok) ==
    IF load_ok THEN Return("loaded")
    ELSE Raise(Exc("Exception", "Error al cargar el modelo"))

\* MLService() with an __init__ that loads the model on every construction.
MLServiceAlwaysLoading(load_ok) ==
    LET out == LoadModel(ml_model, load_ok)
    IN  /\ ml_service.load_calls < MaxLoads
        /\ ml_model' = IF out.raised THEN ml_model ELSE out.value
        /\ ml_service' = [ml_service EXCEPT
                             !.instance = TRUE,
                             !.load_calls = @ + 1,
                             !.loads = IF out.raised THEN @ ELSE @ + 1]
        /\ last' = [op |-> "MLService", created |-> ~ml_service.instance,
                    before |-> ml_service, model_before |-> ml_model, out |-> out]
        /\ MlFrame

\* MLService(): __new__ hands out the one instance, __init__ loads the model
\* if the instance has none.
MLService(load_ok) ==
    LET loads_now == ml_model = "none"
        out == IF loads_now THEN LoadModel(ml_model, load_ok) ELSE Return(ml_model)
    IN  /\ loads_now => ml_service.load_calls < MaxLoads
        /\ ~loads_now => load_ok
        /\ ml_model' = IF out.raised THEN ml_model ELSE out.value
        /\ ml_service' = [ml_service EXCEPT
                             !.instance = TRUE,
                             !.load_calls = IF loads_now THEN @ + 1 ELSE @,
                             !.loads = IF loads_now /\ ~out.raised THEN @ + 1 ELSE @]
        /\ last' = [op |-> "MLService", created |-> ~ml_service.instance,
                    before |-> ml_service, model_before |-> ml_model, out |-> out]
        /\ MlFrame

\* ml_service.reload_model(): self._model = None, then _load_model().
reload_model(load_ok) ==
    LET out == LoadModel("none", load_ok)
    IN  /\ ml_service.load_calls < MaxLoads
        /\ ml_model' = IF out.raised THEN "none" ELSE out.value
        /\ ml_service' = [ml_service EXCEPT
                             !.load_calls = @ + 1,
                             !.loads = IF out.raised THEN @ ELSE @ + 1,
                             !.reloads = @ + 1]
        /\ last' = [op |-> "reload_model", before |-> ml_service,
                    model_before |-> ml_model, out |-> out]
        /\ MlFrame

\* ml_service.predict(image_array)
classify(image_array) ==
    /\ last' = [op |-> "classify", image_array |-> image_array,
                before |-> ml_service, model_before |-> ml_model,
                inferred |-> InferenceRan(ml_model, image_array),
                out |-> MLPredict(ml_model, image_array)]
    /\ UNCHANGED <<ml_model, ml_service>>
    /\ MlFrame

----------------------------------------------------------------------------
(* The transports *)

InitTransport ==
    /\ InitCommon
    /\ users = create_user({}, "alice", "secret1")
    /\ model_version = ModelVersionSeed

NextTransport ==
    \/ \E upload \in Uploads, authorization \in AuthorizationHeaders(now),
          source_ip \in ClientIps, env \in TransportEnvs :
           predict_emotion_route(upload.content_type, upload.bytes,
                                 authorization, source_ip, env)
    \/ \E db_error \in {""} \cup DbErrors : health_check_route(db_error)
    \/ \E websocket \in WebSockets, welcome_sent \in BOOLEAN :
           ws_connect(websocket, welcome_sent)
    \/ \E websocket \in WebSockets, frame \in WsFrames(now),
          client_ip \in ClientIps, env \in TransportEnvs :
           ws_receive(websocket, frame, client_ip, env)
    \/ \E websocket \in WebSockets : ws_disconnect(websocket)

SpecTransport == InitTransport /\ [][NextTransport]_vars

----------------------------------------------------------------------------
(* The auth endpoints, with predictions going on beside them *)

InitAuth ==
    /\ InitCommon
    /\ users = {DeactivatedUser}
    /\ model_version = ModelVersionSeed

NextAuth ==
    \/ Tick
    \/ \E username \in Usernames, password \in Passwords :
           register_user(username, password)
    \/ \E username \in LoginNames, password \in Passwords :
           login(username, password)
    \/ \E token \in PresentedTokens : verify_token_endpoint(token)
    \/ \E token \in PresentedTokens, source_ip \in ClientIps,
          env \in TransportEnvs :
           predict_emotion_route("image/jpeg", SmilingJpeg, <<"Bearer", token>>,
                                 source_ip, env)

SpecAuth == InitAuth /\ [][NextAuth]_vars

----------------------------------------------------------------------------
(* Registrations in several server processes *)

InitRegister ==
    /\ InitCommon
    /\ users = {DeactivatedUser}
    /\ model_version = ModelVersionSeed

NextRegister ==
    \/ \E w \in Workers, username \in Usernames, password \in Passwords :
           register_lookup(w, username, password)
    \/ \E w \in Workers : register_create(w)
    \/ \E username \in Usernames, password \in Passwords :
           /\ \A w \in Workers : register_reqs[w] = Idle
           /\ register_user(username, password)

SpecRegister == InitRegister /\ [][NextRegister]_vars

----------------------------------------------------------------------------
(* Connections, their sessions, and requests in flight *)

\* Frames that end the handler (no JSON, no object, a command that is no
\* string) and frames that do not (the health command, a predict command).
LifeFrames ==
    { [json |-> "invalid"], [json |-> "array"],
      [json |-> "object", msg |-> [command |-> Num("7")]],
      [json |-> "object", msg |-> [command |-> Str("Health")]],
      [json |-> "object", msg |-> [command |-> Str("PREDICT"), image |-> B64(SmilingJpeg)]] }

InitSessions ==
    /\ InitCommon
    /\ users = {DeactivatedUser}
    /\ model_version = ModelVersionSeed

NextSessions ==
    \/ \E websocket \in WebSockets, welcome_sent \in BOOLEAN :
           ws_connect(websocket, welcome_sent)
    \/ \E websocket \in WebSockets, frame \in LifeFrames,
          client_ip \in ClientIps, env \in TransportEnvs :
           ws_receive(websocket, frame, client_ip, env)
    \/ \E websocket \in WebSockets : ws_disconnect(websocket)
    \/ \E w \in Workers, username \in Usernames :
           register_lookup(w, username, "secret1")
    \/ \E w \in Workers : register_create(w)

SpecSessions == InitSessions /\ [][NextSessions]_vars

----------------------------------------------------------------------------
(* The normalizer on its own *)

\* The modes a file of each format can hold.
FormatModes ==
    [f \in {"JPEG", "PNG", "WEBP"} |->
        CASE f = "JPEG" -> {"L", "RGB", "CMYK"}
          [] f = "PNG" -> {"1", "L", "LA", "P", "RGB", "RGBA"}
          [] f = "WEBP" -> {"RGB", "RGBA"}]

\* Widths and heights of the files, from one pixel to 16000 x 16000.
ImageSizes ==
    {<<1, 1>>, <<48, 48>>, <<96, 96>>, <<640, 480>>, <<480, 640>>, <<16000, 16000>>}

\* The darkest and brightest pixel of a file, in the units of its mode.
PixelRanges(mode) ==
    IF mode = "1" THEN {<<0, 0>>, <<0, 1>>, <<1, 1>>}
    ELSE {<<0, 255>>, <<12, 200>>, <<255, 255>>}

\* Valid image files, and the byte strings that are none.
NormalizerInputs ==
    { [kind |-> "image", format |-> f, mode |-> m, width |-> sz[1],
       height |-> sz[2], lo |-> r[1], hi |-> r[2], face |-> "smiling"] :
        f \in {"JPEG", "PNG", "WEBP"}, m \in {"1", "L", "LA", "P", "RGB", "RGBA", "CMYK"},
        sz \in ImageSizes, r \in {<<0, 0>>, <<0, 1>>, <<1, 1>>, <<0, 255>>, <<12, 200>>,
                                  <<255, 255>>} }

ValidImages ==
    {i \in NormalizerInputs : i.mode \in FormatModes[i.format]
                              /\ <<i.lo, i.hi>> \in PixelRanges(i.mode)}

\* await preprocess_image(image_bytes)
normalize(image_bytes) ==
    /\ last' = [op |-> "preprocess_image", image |-> image_bytes,
                out |-> preprocess_image(image_bytes)]
    /\ UNCHANGED <<users, model_version, predictions_log, now, tokens,
                   connected_clients, ws_open, ml_model, ws_io, db_schema, applied,
                   ml_service, register_reqs, db_sessions>>

InitNormalizer ==
    /\ InitCommon
    /\ users = {}
    /\ model_version = ModelVersionSeed

NextNormalizer ==
    \E image_bytes \in ValidImages \cup ImageInputs : normalize(image_bytes)

SpecNormalizer == InitNormalizer /\ [][NextNormalizer]_vars

----------------------------------------------------------------------------
(* The inference wrapper in service *)

InitMl ==
    /\ InitCommon
    /\ users = {}
    /\ model_version = ModelVersionSeed

NextMl ==
    \/ \E load_ok \in BOOLEAN : MLService(load_ok)
    \/ \E load_ok \in BOOLEAN : reload_model(load_ok)
    \/ \E image_array \in Tensors : classify(image_array)
    \/ \E image_bytes \in ImageInputs, source_ip \in ClientIps, env \in TransportEnvs :
           ServicePredict(image_bytes, source_ip, env)

SpecMl == InitMl /\ [][NextMl]_vars

----------------------------------------------------------------------------
(* The whole service: every endpoint and command, and the orchestrator     *)
(* called with the parameters it declares                                  *)

\* A request's measured time is positive here, and the database is up or
\* down for the whole request.
SystemEnvs == {env \in TransportEnvs : env.ms = MaxElapsedMs}
SystemWebSockets == {"ws1"}

InitSystem ==
    /\ InitCommon
    /\ users = create_user({}, "alice", "secret1")
    /\ model_version = ModelVersionSeed

NextSystem ==
    \/ \E image_bytes \in ImageInputs, source_ip \in ClientIps, env \in SystemEnvs :
           ServicePredict(image_bytes, source_ip, env)
    \/ \E upload \in Uploads, authorization \in {<<>>, <<"Bearer", ValidToken(now)>>},
          source_ip \in ClientIps, env \in SystemEnvs :
           predict_emotion_route(upload.content_type, upload.bytes,
                                 authorization, source_ip, env)
    \/ \E db_error \in {""} \cup DbErrors : health_check_route(db_error)
    \/ \E websocket \in SystemWebSockets, welcome_sent \in BOOLEAN :
           ws_connect(websocket, welcome_sent)
    \/ \E websocket \in SystemWebSockets, frame \in WsFrames(now),
          client_ip \in ClientIps, env \in SystemEnvs :
           ws_receive(websocket, frame, client_ip, env)
    \/ \E websocket \in SystemWebSockets : ws_disconnect(websocket)
    \/ \E db_fails \in BOOLEAN,
          most_common \in MostCommon(predictions_log) \cup {None} :
           get_statistics(db_fails, most_common)
    \/ \E limit \in {0, 1, 2}, db_fails \in BOOLEAN :
           get_recent_predictions(limit, db_fails)
    \/ \E days \in {0, 1, 7}, db_fails \in BOOLEAN :
           get_predictions_timeline(days, db_fails)
    \/ \E emotion_name \in EmotionNames, db_fails \in BOOLEAN :
           get_emotion_stats(emotion_name, db_fails)
    \/ \E password \in Passwords : register_user("bob", password)
    \/ \E password \in Passwords : login("alice", password)
    \/ \E token \in PresentedTokens : verify_token_endpoint(token)

SpecSystem == InitSystem /\ [][NextSystem]_vars

----------------------------------------------------------------------------
(* Claims about the orchestrator, checked under SpecService *)

LastIsPredict == last.op = "predict_emotion"
Succeeded == LastIsPredict /\ ~last.out.raised

\* The rows the last call added to predictions_log.
RowsAdded == Len(predictions_log) - Len(last.log_before)
LogKept == SubSeq(predictions_log, 1, Len(last.log_before)) = last.log_before

ValidLogRow(row) ==
    /\ \E e \in emotion_class : e.emotion_id = row.emotion_id
    /\ row.confidence >= 0 /\ row.confidence <= ProbScale

\* C3: when the log write raises, predict_emotion still returns a response
\* carrying the label, the confidence and the model version tag.
C3_PersistFailureStillSucceeds ==
    (LastIsPredict /\ last.out.save_failed) =>
        /\ ~last.out.raised
        /\ last.out.value.emotion_name \in DOMAIN EMOTION_NAME_TO_ID
        /\ last.out.value.confidence \in 0..ProbScale
        /\ last.out.value.model_version_tag \in {"v1.0.0", "v2.0.0"}

\* C4: for bytes that do not decode as an image, predict_emotion raises
\* ValueError and predictions_log is left as it was.
C4_UndecodableRaisesNoRow ==
    (LastIsPredict /\ last.image.kind # "image") =>
        /\ last.out.raised
        /\ last.out.exc.type = "ValueError"
        /\ predictions_log = last.log_before

C4_Witness ==
    /\ LastIsPredict
    /\ last.image.kind = "garbage"
    /\ last.out.raised
    /\ Len(predictions_log) > 0

ActiveRows == {m \in model_version : m.model_status = "01"}
LastRow == predictions_log[Len(predictions_log)]

\* C12: every row of predictions_log references an existing emotion_class
\* row and an existing model_version row, also when it was written with the
\* default model id 1 because no row was active.
C12_ForeignKeysValid ==
    \A i \in 1..Len(predictions_log) :
        /\ \E e \in emotion_class : e.emotion_id = predictions_log[i].emotion_id
        /\ \E m \in model_version : m.model_id = predictions_log[i].model_id

C12_Witness ==
    /\ LastIsPredict
    /\ ActiveRows = {}
    /\ RowsAdded = 1
    /\ LastRow.model_id = 1

\* The last call got as far as stamping a prediction: it wrote a row or
\* returned a response.
Stamped == LastIsPredict /\ (RowsAdded = 1 \/ ~last.out.raised)

\* The last prediction carries `tag` and `id`: in its row when it wrote
\* one, in its response when it returned one.
StampIs(tag, id) ==
    /\ RowsAdded = 1 => LastRow.model_id = id
    /\ ~last.out.raised => last.out.value.model_version_tag = tag

\* C13 as stated: in every state exactly one model_version row is active,
\* and each new prediction carries that row's tag and id.
C13_ExactlyOneActiveStamps ==
    /\ Cardinality(ActiveRows) = 1
    /\ Stamped => \E m \in ActiveRows : StampIs(m.model_version_tag, m.model_id)

\* C13 as amended: no operation changes model_version; a new prediction
\* carries the tag and id of the active row when the look-up finds one, and
\* the default tag v1.0.0 and id 1 when no row is active or the look-up
\* fails.
C13_ActiveRowStampsWhenFound ==
    /\ [](Stamped =>
            IF ~last.env.query_fails /\ ActiveRows # {}
            THEN \E m \in ActiveRows : StampIs(m.model_version_tag, m.model_id)
            ELSE StampIs("v1.0.0", 1))
    /\ [][model_version' = model_version]_vars

C13_Witness ==
    /\ Stamped
    /\ RowsAdded = 1
    /\ ~last.out.raised
    /\ ~last.env.query_fails
    /\ \E m \in ActiveRows : m.model_id = 2 /\ LastRow.model_id = 2
    /\ \E m \in model_version : m.model_id = 1

\* C14: when the look-up finds no active row (none exists, or the query
\* fails), predict_emotion does not fail: it returns a response carrying
\* the default tag v1.0.0, and the row it writes carries model id 1.
C14_DefaultModelFallback ==
    (LastIsPredict /\ last.image.kind = "image"
     /\ (last.env.query_fails \/ ActiveRows = {})) =>
        /\ ~last.out.raised
        /\ StampIs("v1.0.0", 1)

----------------------------------------------------------------------------
(* Claims about the transports, checked under SpecTransport *)

LastIsHttpPredict == last.op = "http_predict"
LastIsWsPredict ==
    /\ last.op = "ws_message"
    /\ last.frame.json = "object"
    /\ "command" \in DOMAIN last.frame.msg
    /\ last.frame.msg.command.type = "str"
    /\ Lower(last.frame.msg.command.v) = "predict"

\* The last operation was a prediction request with a decodable image, an
\* allowed content type and a measured time above 0 ms.
ValidPredictRequest ==
    \/ /\ LastIsHttpPredict
       /\ last.content_type \in allowed_types
       /\ last.image.kind = "image"
       /\ last.env.ms > 0
    \/ /\ LastIsWsPredict
       /\ "image" \in DOMAIN last.frame.msg
       /\ last.frame.msg.image # BadB64
       /\ last.frame.msg.image.bytes.kind = "image"
       /\ last.env.ms > 0

\* The token the last prediction request carried, GarbageToken when it
\* carried none or a malformed header.
RequestToken ==
    IF LastIsHttpPredict
    THEN IF Len(last.authorization) = 2 /\ Lower(last.authorization[1]) = "bearer"
         THEN last.authorization[2] ELSE GarbageToken
    ELSE IF "token" \in DOMAIN last.frame.msg THEN last.frame.msg.token
    ELSE GarbageToken

\* The user a token stands for: the user_id of the existing user a valid
\* token names, NULL for every other token.
TokenUserId(token) ==
    IF token # GarbageToken
       /\ token.signature = Hmac(SECRET_KEY, token.payload)
       /\ token.payload.exp >= now
       /\ \E u \in users : u.username = token.payload.sub
    THEN (CHOOSE u \in users : u.username = token.payload.sub).user_id
    ELSE NULL

PredictRequestSucceeded ==
    IF LastIsHttpPredict THEN last.reply.status = 200
    ELSE last.reply.type = "prediction"

RowsAddedCarry(user_id) ==
    /\ Len(predictions_log) <= Len(last.log_before) + 1
    /\ \A i \in (Len(last.log_before) + 1)..Len(predictions_log) :
           predictions_log[i].user = user_id

\* C1: a prediction request with a valid token of an existing user
\* succeeds, and the row written for it carries that user's user_id.
C1_ValidTokenStampsUser ==
    (ValidPredictRequest /\ TokenUserId(RequestToken) # NULL) =>
        /\ PredictRequestSucceeded
        /\ RowsAddedCarry(TokenUserId(RequestToken))

\* C2: a prediction request with no token, a malformed header, an invalid
\* or expired token, or a token naming an unknown user is processed as
\* anonymous: it succeeds for a valid image, and its row has user_id null.
C2_AnonymousSucceeds ==
    (ValidPredictRequest /\ TokenUserId(RequestToken) = NULL) =>
        /\ PredictRequestSucceeded
        /\ RowsAddedCarry(NULL)

WsVerbs == {"predict", "emotions", "model_info", "health"}

\* The frame of the last WebSocket message is nothing the server can
\* handle as a command.
NotACommand(frame) ==
    \/ frame.json # "object"
    \/ "command" \notin DOMAIN frame.msg
    \/ frame.msg.command.type # "str"
    \/ Lower(frame.msg.command.v) \notin WsVerbs

\* C6: a message that is no command gets an error-typed reply and the
\* connection stays open.
C6_NonCommandKeepsOpen ==
    (last.op = "ws_message" /\ NotACommand(last.frame)) =>
        /\ last.reply.type = "error"
        /\ last.conn \in ws_open

\* The request of the last POST /predict fails input validation.
InputInvalid ==
    \/ last.content_type \notin allowed_types
    \/ ByteLen(last.image) = 0
    \/ last.image.kind # "image"

\* C7: POST /predict answers 400 for every input-validation failure and
\* 500 only for an unexpected internal error.
C7_ValidationIs400 ==
    LastIsHttpPredict =>
        /\ InputInvalid => last.reply.status = 400
        /\ last.reply.status = 500 => (last.internal /\ ~InputInvalid)

\* C8: the reply to an unexpected internal error is the same in every run
\* that differs only in the text of the exception.
C8_NoDetailLeak ==
    (last.op \in {"http_predict", "http_health", "ws_message"} /\ last.internal) =>
        \A other \in last.alt : other = last.reply

----------------------------------------------------------------------------
(* Claims about the auth helper, checked under SpecAuth *)

Lifetime == Minutes(ACCESS_TOKEN_EXPIRE_MINUTES)

\* username is registered and active, and password is the one it was
\* registered with.
CorrectCredentials(username, password) ==
    \E u \in users :
        /\ u.username = username
        /\ u.is_active
        /\ u.hashed_password = get_password_hash(password)

\* C9: a login with the correct password of a registered active user
\* returns a token whose verification, then and later, succeeds and
\* recovers the same username; a login with a wrong password or an unknown
\* username is answered 401 with no token.
C9_LoginRoundTrip ==
    /\ last.op = "login" =>
           IF CorrectCredentials(last.username, last.password)
           THEN /\ last.status = 200
                /\ last.access_token # None
                /\ verify_token(last.access_token, now) # None
                /\ verify_token(last.access_token, now).sub = last.username
           ELSE /\ last.status = 401
                /\ last.access_token = None
    /\ \A t \in tokens :
           now <= t.iat + Lifetime =>
               /\ verify_token(t.token, now) # None
               /\ verify_token(t.token, now).sub = t.username
    /\ \A t \in tokens :
           (last.op = "verify" /\ last.token = t.token /\ now <= t.iat + Lifetime) =>
               (last.status = 200 /\ last.username = t.username)

C9_Witness ==
    \E t \in tokens :
        /\ now > t.iat
        /\ last.op = "verify"
        /\ last.token = t.token
        /\ last.status = 200
        /\ last.username = t.username

\* C10: a token handed out at login is accepted at every instant before
\* its expiry, 24 hours after it was issued, and rejected at every instant
\* after it, whatever else happened in between.
C10_ValidUntilExpiry ==
    \A t \in tokens :
        /\ now < t.iat + Lifetime => verify_token(t.token, now) # None
        /\ now > t.iat + Lifetime => verify_token(t.token, now) = None

C10_Witness ==
    \E t \in tokens, o \in tokens :
        /\ o.iat > t.iat
        /\ now > t.iat + Lifetime
        /\ now < o.iat + Lifetime
        /\ last.op = "verify"
        /\ last.token = t.token
        /\ last.status = 401

\* The WebSocket predict message that carries the image and the identity
\* of a POST /predict request: the token of a well-formed Bearer header,
\* no token otherwise.
SameRequestOverWs(image_bytes, authorization) ==
    IF Len(authorization) = 2 /\ Lower(authorization[1]) = "bearer"
    THEN [command |-> Str("predict"), image |-> B64(image_bytes),
          token |-> authorization[2]]
    ELSE [command |-> Str("predict"), image |-> B64(image_bytes)]

\* An HTTP answer and a WebSocket answer are the same outcome: both are
\* successes with the same label, confidence and version tag and the same
\* table after, or both are errors.
SameOutcome(http, http_log, ws, ws_log) ==
    IF http.status = 200
    THEN /\ ws.type = "prediction"
         /\ ws.emotion_name = http.body.emotion_name
         /\ ws.confidence = http.body.confidence
         /\ ws.model_version_tag = http.body.model_version_tag
         /\ ws_log = http_log
    ELSE ws.type = "error"

\* C16: whenever POST /predict answers a request with an allowed content
\* type, the WebSocket predict command, given the same bytes, the same
\* identity and the same state, yields the same outcome.
C16_TransportsAgree ==
    [][(last'.op = "http_predict" /\ last'.content_type \in allowed_types) =>
          LET ws == handle_predict(
                        SameRequestOverWs(last'.image, last'.authorization),
                        "10.0.0.1", last'.env)
          IN  /\ HandlePredictUserId(
                     SameRequestOverWs(last'.image, last'.authorization),
                     users, now) = last'.current_user
              /\ SameOutcome(last'.reply, predictions_log', ws.reply, ws.log)]_vars

C16_Witness ==
    /\ last.op = "http_predict"
    /\ last.content_type \in allowed_types
    /\ last.image.kind = "image"
    /\ last.current_user # NULL
    /\ last.env.ms > 0 /\ ~last.env.commit_fails
    /\ last.reply.status = 500
    /\ handle_predict(SameRequestOverWs(last.image, last.authorization),
                      "10.0.0.1", last.env).reply.type = "error"

\* `l` records a WebSocket message with the predict command.
IsWsPredict(l) ==
    /\ l.op = "ws_message"
    /\ l.frame.json = "object"
    /\ "command" \in DOMAIN l.frame.msg
    /\ l.frame.msg.command.type = "str"
    /\ Lower(l.frame.msg.command.v) = "predict"

\* `l` records a predict message that is valid: a decodable image, the
\* database up, a measured time above 0 ms.
IsValidWsPredict(l) ==
    /\ IsWsPredict(l)
    /\ "image" \in DOMAIN l.frame.msg
    /\ l.frame.msg.image # BadB64
    /\ l.frame.msg.image.bytes.kind = "image"
    /\ l.env.ms > 0
    /\ ~l.env.commit_fails /\ ~l.env.query_fails

\* C17: after a predict message that failed, the connection is open, and
\* a valid predict message that follows on the same connection is answered
\* with a prediction and has its row written.
C17_FailureScopedToMessage ==
    [][(IsWsPredict(last) /\ last.reply.type = "error") =>
          /\ last.conn \in ws_open
          /\ (IsValidWsPredict(last') /\ last'.conn = last.conn) =>
                 /\ last'.reply.type = "prediction"
                 /\ Len(predictions_log') = Len(predictions_log) + 1]_vars

\* C18: no two user rows share a username; a registration under a username
\* that is taken is answered 400 and adds no row; no step removes a row.
C18_UsernamesUnique ==
    /\ [](\A u \in users, v \in users : u.username = v.username => u = v)
    /\ [][/\ users \subseteq users'
           /\ (last'.op = "register"
               /\ \E u \in users : u.username = last'.username) =>
                  (last'.status = 400 /\ users' = users)]_vars

C18_Witness ==
    /\ last.op = "register"
    /\ last.status = 400
    /\ \E u \in users : u.username = last.username /\ u.is_active

----------------------------------------------------------------------------
(* Claims about the message loop, checked under SpecWs *)

\* C15: on every connection the frames are handled one at a time in the
\* order they arrived: each frame read has exactly one reply, sent before
\* the next frame is read, so the i-th reply answers the i-th frame.
C15_OneReplyInOrder ==
    \A websocket \in WebSockets :
        LET io == ws_io[websocket]
        IN  /\ Len(io.sent) = Len(io.read) - (IF io.pc = "handle" THEN 1 ELSE 0)
            /\ \A i \in 1..Len(io.sent) :
                   /\ io.sent[i].re = i
                   /\ io.sent[i].frame = io.read[i]
            /\ io.pc = "handle" => io.frame = io.read[Len(io.read)]

C15_Witness ==
    \E websocket \in WebSockets :
        LET io == ws_io[websocket]
        IN  /\ Len(io.sent) = 2
            /\ io.sent[1].reply.type = "error"
            /\ io.sent[2].reply.type = "health"
            /\ io.inbox # <<>>
            /\ io.pc = "receive"

----------------------------------------------------------------------------
(* Claims about the whole service, checked under SpecSystem *)

\* C11: predictions_log is append-only: every step of every operation keeps
\* the rows there are, unchanged and in place; the table only grows.
C11_AppendOnly ==
    [][/\ Len(predictions_log') >= Len(predictions_log)
       /\ SubSeq(predictions_log', 1, Len(predictions_log)) = predictions_log]_vars

C11_Witness ==
    /\ Len(predictions_log) = 2
    /\ last.op = "predict_emotion"
    /\ ~last.out.save_failed
    /\ Len(last.log_before) = 1

DashboardOps ==
    {"dashboard_stats", "dashboard_recent", "dashboard_timeline", "dashboard_emotion"}

\* C19: a dashboard request, whatever its parameters and whether it is
\* answered 200 or with an error, leaves every table as it was.
C19_DashboardReadOnly ==
    [][last'.op \in DashboardOps =>
           UNCHANGED <<users, model_version, predictions_log, tokens>>]_vars

C19_Witness ==
    /\ last.op = "dashboard_recent"
    /\ last.status = 200
    /\ last.body.count = 1
    /\ Len(predictions_log) = 2

----------------------------------------------------------------------------
(* The migration chain *)

\* The whole chain, from the base.
ChainOrder == UpgradePath(BASE, Cardinality(Revisions))

Tables(schema) == {f.table : f \in {g \in schema : g.kind = "table"}}

FourTables == {"emotion_class", "model_version", "users", "predictions_log"}

----------------------------------------------------------------------------
(* The classifier *)

LastIsClassify == last.op = "classify"

RightShape(image_array) == image_array.shape = <<1, 96, 96, 3>>

\* The largest of the probabilities of a vector.
Largest(v) == CHOOSE x \in {v[i] : i \in DOMAIN v} : \A j \in DOMAIN v : v[j] <= x

\* C21: classify rejects every tensor whose shape is not (1, 96, 96, 3) with
\* the shape-mismatch ValueError and runs no inference; for a tensor of the
\* right shape it returns the label at the index of the largest probability
\* of the ordered label set, with that probability.
C21_ClassifyContract ==
    LastIsClassify =>
        IF ~RightShape(last.image_array)
        THEN /\ last.out.raised
             /\ last.out.exc = Exc("ValueError", "Shape de imagen incorrecto")
             /\ ~last.inferred
        ELSE /\ ~last.out.raised
             /\ last.inferred
             /\ last.out.value.confidence = Largest(last.out.value.all_probs)
             /\ \E i \in DOMAIN EMOTION_CLASSES :
                    /\ last.out.value.all_probs[i] = last.out.value.confidence
                    /\ last.out.value.emotion_name = EMOTION_CLASSES[i]

NotInitialised == Exc("Exception", "Modelo no inicializado")

\* C29: once the model has been loaded, a model stays in service: every
\* later classify finds one and never fails with 'Modelo no inicializado',
\* also after a reload_model whose load failed.
C29_ModelStaysInService ==
    /\ ml_service.loads >= 1 => ml_model = "loaded"
    /\ LastIsClassify => ~(last.out.raised /\ last.out.exc = NotInitialised)

\* C24: as long as reload_model is not called the model is loaded exactly
\* once: whatever number of constructions and predictions, _load_model ran
\* once (at import), the model it loaded is the one in service, and every
\* MLService() hands out the instance that exists without loading.
C24_LoadedOnce ==
    ml_service.reloads = 0 =>
        /\ ml_service.load_calls = 1
        /\ ml_service.loads = 1
        /\ ml_model = "loaded"
        /\ ml_service.instance
        /\ last.op = "MLService" =>
               ~last.created /\ ~last.out.raised /\ last.before = ml_service

\* MLService() constructed again after a prediction was served, no reload.
C24_Witness ==
    /\ last.op = "MLService"
    /\ ml_service.reloads = 0
    /\ Len(predictions_log) >= 1

----------------------------------------------------------------------------
(* Labels and taxonomy ids; rows and responses *)

\* The id the seeded taxonomy gives a name (NULL when it has no such row).
SeededId(name) ==
    IF \E row \in SeededEmotionClass : row.emotion_name = name
    THEN (CHOOSE row \in SeededEmotionClass : row.emotion_name = name).emotion_id
    ELSE NULL

\* C22: every label of the classifier's ordered label set has an entry in
\* the orchestrator's mapping, equal to the id of the seeded taxonomy row of
\* that name; so no prediction fails with 'Emocion no reconocida' and a row
\* written carries the seeded id of the label answered.
C22_LabelsHaveTaxonomyIds ==
    /\ \A i \in DOMAIN EMOTION_CLASSES :
           /\ EMOTION_CLASSES[i] \in DOMAIN EMOTION_NAME_TO_ID
           /\ SeededId(EMOTION_CLASSES[i]) # NULL
           /\ EMOTION_NAME_TO_ID[EMOTION_CLASSES[i]] = SeededId(EMOTION_CLASSES[i])
    /\ emotion_class = SeededEmotionClass
    /\ LastIsPredict =>
           ~(last.out.raised /\ last.out.exc = Exc("ValueError", "Emocion no reconocida"))
    /\ (Succeeded /\ RowsAdded = 1) =>
           LastRow.emotion_id = SeededId(last.out.value.emotion_name)

\* A prediction answered 'sad' wrote its row with the id of the seeded row.
C22_Witness ==
    /\ Succeeded
    /\ RowsAdded = 1
    /\ last.out.value.emotion_name = "sad"
    /\ LastRow.emotion_id = 6

\* C25: a call of predict_emotion that raises leaves the predictions_log
\* table as it was; a row is written only by a call that returns a response.
C25_NoRowWhenRaising ==
    (LastIsPredict /\ last.out.raised) => predictions_log = last.log_before

----------------------------------------------------------------------------
(* The normalizer's output *)

LastIsNormalize == last.op = "preprocess_image"

\* The tensor has the model's input shape and all its values are in [0,1].
Normalized(res) ==
    /\ ~res.raised
    /\ res.value.shape = <<1, 96, 96, 3>>
    /\ 0 <= res.value.min
    /\ res.value.min <= res.value.max
    /\ res.value.max <= res.value.den

WithinPixelLimit(image_bytes) ==
    image_bytes.width * image_bytes.height <= 2 * MAX_IMAGE_PIXELS

\* C23 as stated: for every valid JPEG, PNG or WEBP file, whatever its
\* resolution and colour mode, the normalizer returns a tensor of shape
\* (1, 96, 96, 3) with every value in [0,1].
C23_AlwaysNormalized ==
    (LastIsNormalize /\ last.image.kind = "image") => Normalized(last.out)

\* C23 amended: the same for every valid file whose number of pixels is not
\* over twice MAX_IMAGE_PIXELS, the limit above which the decoder refuses.
C23_NormalizedWithinPixelLimit ==
    (LastIsNormalize /\ last.image.kind = "image" /\ WithinPixelLimit(last.image))
        => Normalized(last.out)

\* A palette PNG that is not square was normalized.
C23_Witness ==
    /\ LastIsNormalize
    /\ last.image.kind = "image"
    /\ last.image.mode = "P"
    /\ last.image.width # last.image.height
    /\ WithinPixelLimit(last.image)
    /\ Normalized(last.out)

----------------------------------------------------------------------------
(* Registrations racing for a name *)

\* C26: of the registrations of one new username handled at the same time
\* at most one creates a row, and every registration that creates none is
\* answered 400 'El username ya esta registrado', as a duplicate
\* registration made afterwards is.
C26_RaceLoserGets400 ==
    /\ \A u1 \in users, u2 \in users : u1.username = u2.username => u1 = u2
    /\ (last.op = "register" /\ last.status # 201) =>
           /\ last.status = 400
           /\ last.detail = "El username ya esta registrado"

----------------------------------------------------------------------------
(* The registry of connections and the sessions *)

\* The last operation ended the handler of connection last.conn.
HandlerEnded ==
    \/ last.op = "ws_disconnect"
    \/ last.op = "ws_connect" /\ last.reply = None
    \/ last.op = "ws_message" /\ last.frame.json # "object"
    \/ /\ last.op = "ws_message"
       /\ last.frame.json = "object"
       /\ "command" \in DOMAIN last.frame.msg
       /\ last.frame.msg.command.type # "str"

LastIsHealthReply ==
    /\ last.op = "ws_message"
    /\ last.frame.json = "object"
    /\ last.reply.type = "health"

\* C27: connected_clients holds exactly the connections whose handler is
\* between accept and its cleanup; every way out of the handler (client
\* gone, failed welcome, malformed message, internal error) removes the
\* connection; the health command reports the number of open connections.
C27_RegistryIsOpenConnections ==
    /\ connected_clients = ws_open
    /\ HandlerEnded => last.conn \notin connected_clients
    /\ LastIsHealthReply => last.reply.clients_connected = Cardinality(ws_open)

\* The health command answered 1 on the one connection that is open.
C27_Witness ==
    /\ LastIsHealthReply
    /\ last.reply.clients_connected = 1
    /\ ws_open = {last.conn}

InFlight == {w \in Workers : register_reqs[w] # Idle}

\* C28: the session opened for a WebSocket connection is open exactly while
\* the connection's handler runs and is closed, once, in the step that ends
\* the handler, whichever way it ends; so the open sessions are never more
\* than the open connections plus the HTTP requests in flight.
C28_SessionClosedWithHandler ==
    /\ [](/\ db_sessions \cap WebSockets = ws_open
          /\ db_sessions \cap Workers = InFlight
          /\ HandlerEnded => last.conn \notin db_sessions
          /\ Cardinality(db_sessions) <= Cardinality(ws_open) + Cardinality(InFlight))
    /\ [][\A websocket \in WebSockets :
              (websocket \in db_sessions /\ websocket \notin db_sessions')
                  => (websocket \in ws_open /\ websocket \notin ws_open')]_vars

\* A malformed message has ended a handler while another connection and a
\* registration are still open.
C28_Witness ==
    /\ last.op = "ws_message"
    /\ last.frame.json = "invalid"
    /\ last.conn \notin db_sessions
    /\ Cardinality(db_sessions \cap WebSockets) = 1
    /\ InFlight # {}

----------------------------------------------------------------------------
(* Statistics and the log *)

RECURSIVE SumCounts(_)
SumCounts(groups) ==
    IF groups = {} THEN 0
    ELSE LET g == CHOOSE g \in groups : TRUE
         IN  g.count + SumCounts(groups \ {g})

============================================================================
